------------------------ MODULE IdentityStoreWrites -------------------------
(***************************************************************************)
(* The steps of the handlers of IdentityStore preserve its invariant.      *)
(***************************************************************************)
EXTENDS IdentityStoreInv

USE Zenon

-----------------------------------------------------------------------------
(* The writes of the lock holder.                                           *)

\* Steps that change neither the files the invariant is about nor the lock.
LEMMA SameLockPreserves ==
    ASSUME IndInv, TypeOK', UNCHANGED <<registry, identities, transactions, op, held>>
    PROVE  IndInv'
<1>1. OneDidPerId'
  BY SMTT(60) DEF IndInv, OneDidPerId, Names, Registered, Working
<1>2. HandlerShape' /\ JournalKept'
  BY DEF IndInv, HandlerShape, JournalKept, Working, OpJournal
<1>3. ProvisionStages' /\ DeleteStages'
  BY DEF IndInv, ProvisionStages, DeleteStages, Working, Registered
<1>4. IdentityStages' /\ UnjournalStage'
  BY DEF IndInv, IdentityStages, UnjournalStage, Working, Registered
<1>5. QED
  BY <1>1, <1>2, <1>3, <1>4, SameDisk DEF IndInv

\* The lock holder moves to the next stage of its handler.
LEMMA Advances ==
    ASSUME IndInv, Working, op.stage # "unjournal", Advance
    PROVE  /\ op \in Work /\ op' \in Work /\ HandlerShape'
           /\ op.stage \in DOMAIN Order[op.kind]
           /\ op'.stage = Order[op.kind][op.stage]
           /\ op'.p = op.p /\ op'.kind = op.kind /\ op'.id = op.id /\ op'.did = op.did
           /\ op'.file = op.file /\ op'.kids = op.kids /\ op'.record = op.record
<1>1. op \in Work /\ op.stage \in DOMAIN Order[op.kind] /\ op.kind \in WorkKinds
  BY DEF IndInv, HandlerShape, Work
<1>2. Order[op.kind][op.stage] \in (DOMAIN Order[op.kind] \cup {"unjournal"}) \cap Stages
  BY <1>1, OrderStages
<1>3. /\ op' \in Work
      /\ op'.stage = Order[op.kind][op.stage]
      /\ op'.p = op.p /\ op'.kind = op.kind /\ op'.id = op.id /\ op'.did = op.did
      /\ op'.file = op.file /\ op'.kids = op.kids /\ op'.record = op.record
  BY <1>1, <1>2 DEF Advance, Work
<1>4. HandlerShape'
  BY <1>1, <1>2, <1>3 DEF IndInv, HandlerShape
<1>5. QED
  BY <1>1, <1>3, <1>4

\* The names of an identity do not change when the lock holder advances.
LEMMA SameNames ==
    ASSUME IndInv, Working, op.stage # "unjournal", Advance,
           \A id \in Ids : identities'[id] = None \/ identities'[id] = identities[id]
                           \/ (id = op.id /\ identities'[id].did = op.did),
           \A id \in Ids, d \in Dids : Registered(id, d)' =>
               Registered(id, d) \/ (id = op.id /\ d = op.did),
           \A j \in transactions' : j \in transactions \/ (j.id = op.id /\ j.did = op.did)
    PROVE  OneDidPerId'
<1>1. op'.id = op.id /\ op'.did = op.did
  BY Advances
<1>2. ASSUME NEW id \in Ids, NEW d \in Dids, Names(id, d)'
      PROVE  Names(id, d)
  <2>1. Names(op.id, op.did)
    BY DEF Names
  <2>2. CASE (identities[id] # None /\ identities[id].did = d)'
    BY <2>1, <2>2 DEF Names
  <2>3. CASE Registered(id, d)'
    BY <2>1, <2>3 DEF Names
  <2>4. CASE \E j \in transactions' : j.id = id /\ j.did = d
    BY <2>1, <2>4 DEF Names
  <2>5. CASE (Working /\ op.id = id /\ op.did = d)'
    BY <1>1, <2>1, <2>5
  <2>6. QED
    BY <1>2, <2>2, <2>3, <2>4, <2>5 DEF Names
<1>3. QED
  BY <1>2 DEF IndInv, OneDidPerId

\* The lock holder advances past a write that concerns only the secrets.
LEMMA AdvancePreserves ==
    ASSUME IndInv, TypeOK', Working, op.stage \in {"journal", "seal", "drop"}, Advance,
           op.stage = "journal" => op.kind \in UpdateKinds,
           UNCHANGED <<registry, identities, transactions, held>>
    PROVE  IndInv'
<1>1. /\ op \in Work /\ op' \in Work /\ HandlerShape'
      /\ op.stage \in DOMAIN Order[op.kind] /\ op'.stage = Order[op.kind][op.stage]
      /\ op'.p = op.p /\ op'.kind = op.kind /\ op'.id = op.id /\ op'.did = op.did
      /\ op'.file = op.file /\ op'.kids = op.kids /\ op'.record = op.record
  BY Advances
<1>2. op.kind \in WorkKinds
  BY <1>1 DEF Work
<1>3. /\ op'.stage # "journal"
      /\ op.kind \in {"Create", "Provision"} => op.stage = "seal" /\ op'.stage = "record"
      /\ op.kind = "NamespaceDelete" => op.stage = "drop" /\ op'.stage = "record"
      /\ op.kind \in IdentityKinds => \/ op.stage \in {"journal", "seal"}
                                         /\ op'.stage \in {"seal", "record"}
                                      \/ op.stage = "drop" /\ op'.stage = "unjournal"
                                         /\ op.kind \in UpdateKinds
  BY SMTT(60), <1>1, <1>2, OrderTable DEF WorkKinds, StoreKinds, IdentityKinds, UpdateKinds
<1>4. OneDidPerId'
  BY SameNames DEF Registered
<1>5. JournalKept'
  <2>1. OpJournal' = OpJournal
    BY <1>1 DEF OpJournal
  <2>2. QED
    BY <1>1, <1>3, <2>1 DEF IndInv, JournalKept
<1>6. ProvisionStages' /\ DeleteStages'
  BY <1>1, <1>3 DEF IndInv, ProvisionStages, DeleteStages, Registered
<1>7. IdentityStages'
  BY <1>1, <1>3 DEF IndInv, IdentityStages, Registered
<1>8. UnjournalStage'
  BY <1>1, <1>2, <1>3 DEF UnjournalStage, WorkKinds, StoreKinds
<1>9. QED
  BY <1>1, <1>4, <1>5, <1>6, <1>7, <1>8, SameDisk DEF IndInv

\* Writing the transaction journal keeps the invariant.
LEMMA WriteJournalPreserves ==
    ASSUME IndInv, WriteJournal
    PROVE  IndInv'
<1>1. /\ Working /\ op.stage = "journal" /\ op.kind \notin UpdateKinds /\ Advance
      /\ transactions' = transactions \cup {OpJournal}
      /\ UNCHANGED <<registry, identities, secrets, updates, mode, view, held>>
  BY DEF WriteJournal, At, Working, OpJournal
<1>2. /\ op \in Work /\ op' \in Work /\ HandlerShape'
      /\ op.stage \in DOMAIN Order[op.kind] /\ op'.stage = Order[op.kind][op.stage]
      /\ op'.p = op.p /\ op'.kind = op.kind /\ op'.id = op.id /\ op'.did = op.did
      /\ op'.file = op.file /\ op'.kids = op.kids /\ op'.record = op.record
  BY <1>1, Advances
<1>3. op.kind \in WorkKinds /\ op.id \in Ids /\ op.did \in Dids
  BY <1>2 DEF Work
<1>4. op'.stage \in {"seal", "record", "drop"}
        /\ (op.kind \in {"Create", "Provision"} => op'.stage = "seal")
        /\ (op.kind \in IdentityKinds => op'.stage # "drop")
  BY SMTT(60), <1>1, <1>2, <1>3, OrderTable DEF WorkKinds, StoreKinds, IdentityKinds, UpdateKinds
<1>5. /\ OpJournal.id = op.id /\ OpJournal.did = op.did /\ OpJournal.tx = op.file
      /\ OpJournal.kind = JournalKind(op.kind)
      /\ OpJournal' = OpJournal
  BY <1>2 DEF OpJournal
<1>6. TypeOK'
  <2>1. op.file \in TxIds
    BY <1>1 DEF IndInv, HandlerShape
  <2>2. OpJournal \in CreationJournal
    BY <1>1, <1>2, <1>3, <2>1
       DEF OpJournal, CreationJournal, JournalKind, Work, WorkKinds, StoreKinds, IdentityKinds
  <2>3. QED
    BY <1>1, <1>2, <2>2 DEF IndInv, TypeOK
<1>7. OneDidPerId'
  BY <1>1, <1>5, SameNames DEF Registered
<1>8. JournalKept'
  BY <1>1, <1>2, <1>4, <1>5 DEF IndInv, JournalKept
<1>9. CreatingIsHidden' /\ HeldIsListed'
  <2>1. op.kind \in {"StateTransition", "RootImport"} =>
          /\ identities[op.id] # None => identities[op.id].state # "Creating"
          /\ identities[op.id] # None => Registered(op.id, identities[op.id].did)
    <3>1. op.kind \in {"StateTransition", "RootImport"} =>
            Registered(op.id, op.did) /\ identities[op.id].state # "Creating"
      BY <1>1 DEF IndInv, IdentityStages, IdentityKinds
    <3>2. identities[op.id] # None => identities[op.id].did \in Dids
      BY <1>3 DEF IndInv, TypeOK, IdentityRecord
    <3>3. identities[op.id] # None => identities[op.id].did = op.did
      BY <1>1, <1>3, <3>2 DEF IndInv, OneDidPerId, Names
    <3>4. QED
      BY <3>1, <3>3
  <2>2. JournalKind(op.kind) \in {"StateTransition", "RootImport"} =>
          op.kind \in {"StateTransition", "RootImport"}
    BY DEF JournalKind
  <2>3. CreatingIsHidden'
    BY SMTT(60), <1>1, <1>5, <2>1, <2>2 DEF IndInv, CreatingIsHidden, Registered
  <2>4. HeldIsListed'
    BY SMTT(60), <1>1, <1>5, <2>1, <2>2 DEF IndInv, HeldIsListed, Registered
  <2>5. QED
    BY <2>3, <2>4
<1>10. ProvisionStages'
  <2>1. op.kind \in {"Create", "Provision"} => JournalKind(op.kind) = "Create"
    BY DEF JournalKind
  <2>2. op.kind \in {"Create", "Provision"} =>
          \A j \in transactions' : j.id = op.id => j.kind = "Create"
    BY <1>1, <1>5, <2>1 DEF IndInv, ProvisionStages
  <2>3. QED
    BY <1>1, <1>2, <1>4, <2>2 DEF IndInv, ProvisionStages
<1>11. DeleteStages' /\ UnjournalStage'
  BY <1>1, <1>2, <1>4 DEF IndInv, DeleteStages, UnjournalStage, Registered
<1>12. IdentityStages'
  BY <1>1, <1>2, <1>4 DEF IndInv, IdentityStages, Registered
<1>13. RegistryAgreement'
  BY SMTT(60), <1>1 DEF IndInv, RegistryAgreement, UnlistedRecordIsJournaled, MissingRecordIsJournaled,
              StaleSummaryIsJournaled, Registered, Journaled
<1>14. HandleCoherence'
  BY <1>1 DEF IndInv, HandleCoherence
<1>15. QED
  BY <1>2, <1>6, <1>7, <1>8, <1>9, <1>10, <1>11, <1>12, <1>13, <1>14 DEF IndInv

\* What the invariant says about the lock holder at its record write.
LEMMA RecordStage ==
    ASSUME IndInv, WriteRecord
    PROVE  /\ Working /\ op.stage = "record" /\ Advance
           /\ op.kind \in WorkKinds /\ op.id \in Ids /\ op.did \in Dids
           /\ identities' = [identities EXCEPT ![op.id] = op.record]
           /\ identities'[op.id] = op.record
           /\ \A i \in Ids : i # op.id => identities'[i] = identities[i]
           /\ UNCHANGED <<registry, secrets, transactions, updates, mode, view, held>>
           /\ op' \in Work /\ HandlerShape' /\ op'.stage = Order[op.kind]["record"]
           /\ op'.p = op.p /\ op'.kind = op.kind /\ op'.id = op.id /\ op'.did = op.did
           /\ op'.file = op.file /\ op'.kids = op.kids /\ op'.record = op.record
           /\ op'.stage # "journal"
           /\ IF op.kind = "NamespaceDelete" THEN op.record = None
              ELSE op.record \in IdentityRecord /\ op.record # None /\ op.record.did = op.did
           /\ \A d \in Dids : Registered(op.id, d) => d = op.did
           /\ op.kind \notin UpdateKinds => OpJournal \in transactions
           /\ TypeOK' /\ OneDidPerId' /\ JournalKept'
<1>1. /\ Working /\ op.stage = "record" /\ Advance
      /\ identities' = [identities EXCEPT ![op.id] = op.record]
      /\ UNCHANGED <<registry, secrets, transactions, updates, mode, view, held>>
  BY DEF WriteRecord, At, Working
<1>2. /\ op \in Work /\ op' \in Work /\ HandlerShape'
      /\ op.stage \in DOMAIN Order[op.kind] /\ op'.stage = Order[op.kind][op.stage]
      /\ op'.p = op.p /\ op'.kind = op.kind /\ op'.id = op.id /\ op'.did = op.did
      /\ op'.file = op.file /\ op'.kids = op.kids /\ op'.record = op.record
  BY <1>1, Advances
<1>3. op.kind \in WorkKinds /\ op.id \in Ids /\ op.did \in Dids
  BY <1>2 DEF Work
<1>4. op'.stage # "journal"
  BY SMTT(60), <1>1, <1>2, <1>3, OrderTable DEF WorkKinds, StoreKinds, IdentityKinds, UpdateKinds
<1>5. IF op.kind = "NamespaceDelete" THEN op.record = None
      ELSE op.record \in IdentityRecord /\ op.record # None /\ op.record.did = op.did
  BY <1>1, NoneAssumption DEF IndInv, HandlerShape
<1>6. \A d \in Dids : Registered(op.id, d) => d = op.did
  BY <1>1, <1>3 DEF IndInv, OneDidPerId, Names
<1>7. /\ identities'[op.id] = op.record
      /\ \A i \in Ids : i # op.id => identities'[i] = identities[i]
  BY <1>1, <1>3 DEF IndInv, TypeOK
<1>8. TypeOK'
  BY <1>1, <1>2, <1>5 DEF IndInv, TypeOK
<1>9. OneDidPerId'
  BY <1>1, <1>5, <1>7, SameNames DEF Registered
<1>10. OpJournal' = OpJournal
  BY <1>2 DEF OpJournal
<1>11. op.kind \notin UpdateKinds => OpJournal \in transactions
  BY <1>1 DEF IndInv, JournalKept
<1>12. JournalKept'
  BY <1>1, <1>2, <1>4, <1>10 DEF IndInv, JournalKept
<1>13. QED
  BY <1>1, <1>2, <1>3, <1>4, <1>5, <1>6, <1>7, <1>8, <1>9, <1>11, <1>12

\* A creation, enrollment or import writes its record: unlisted, journalled.
LEMMA WriteNewRecordPreserves ==
    ASSUME IndInv, WriteRecord, op.kind \in {"Create", "Provision"}
    PROVE  IndInv'
<1>1. /\ registry.ids[op.did] = None /\ identities[op.id] = None
      /\ \A p \in Procs : held[p][op.id] = None
      /\ \A j \in transactions : j.id = op.id => j.kind = "Create"
      /\ op.record.root # "Pending"
      /\ op.record.state = "Creating" <=> op.kind = "Create"
  BY RecordStage DEF IndInv, ProvisionStages
<1>2. op'.stage = "registry" /\ op.record # None
  BY SMTT(60), RecordStage, OrderTable
<1>3. \A d \in Dids : ~Registered(op.id, d)
  BY <1>1, RecordStage DEF Registered
<1>4. Journaled(op.id, "Create")
  BY RecordStage DEF Journaled, OpJournal, JournalKind, UpdateKinds
<1>5. CreatingIsHidden'
  BY SMTT(60), <1>1, <1>3, RecordStage DEF IndInv, CreatingIsHidden, Registered
<1>6. HeldIsListed'
  BY SMTT(60), <1>1, RecordStage DEF IndInv, HeldIsListed, Registered
<1>7. ProvisionStages'
  BY SMTT(60), <1>1, <1>2, RecordStage DEF ProvisionStages
<1>8. DeleteStages' /\ IdentityStages' /\ UnjournalStage'
  BY <1>2, RecordStage
     DEF DeleteStages, IdentityStages, UnjournalStage, IdentityKinds, UpdateKinds
<1>9. RegistryAgreement'
  BY SMTT(60), <1>2, <1>3, <1>4, RecordStage
     DEF IndInv, RegistryAgreement, UnlistedRecordIsJournaled, MissingRecordIsJournaled,
         StaleSummaryIsJournaled, Registered, Journaled
<1>10. HandleCoherence'
  BY SMTT(60), <1>1, RecordStage DEF IndInv, HandleCoherence
<1>11. QED
  BY <1>5, <1>6, <1>7, <1>8, <1>9, <1>10, RecordStage DEF IndInv

\* An update, adoption or root transfer writes the next generation of the record.
LEMMA WriteNextRecordPreserves ==
    ASSUME IndInv, WriteRecord, op.kind \in IdentityKinds
    PROVE  IndInv'
<1>1. /\ identities[op.id] # None /\ Registered(op.id, op.did)
      /\ identities[op.id].state # "Creating" /\ op.record.state # "Creating"
      /\ op.kind = "RootImport" => RootImported(op.record)
      /\ op.kind \in UpdateKinds => SameEntry(op.record, identities[op.id])
      /\ op.record.gen = identities[op.id].gen + 1
  BY RecordStage DEF IndInv, IdentityStages
<1>2. /\ op.kind \notin {"Create", "Provision", "NamespaceDelete"}
      /\ op.record \in IdentityRecord /\ op.record # None /\ op.record.did = op.did
  BY RecordStage DEF IdentityKinds, UpdateKinds
<1>3. /\ op.kind \in UpdateKinds => op'.stage \in {"drop", "unjournal"}
      /\ op.kind \notin UpdateKinds => op'.stage = "registry"
  BY SMTT(60), RecordStage, OrderTable DEF IdentityKinds, UpdateKinds
<1>4. CreatingIsHidden'
  BY SMTT(60), <1>1, RecordStage DEF IndInv, CreatingIsHidden, Registered
<1>5. HeldIsListed'
  BY SMTT(60), <1>1, <1>2, RecordStage DEF IndInv, HeldIsListed, Registered
<1>6. ProvisionStages' /\ DeleteStages'
  BY <1>2, RecordStage DEF ProvisionStages, DeleteStages
<1>7. IdentityStages'
  BY SMTT(60), <1>1, <1>2, <1>3, RecordStage DEF IdentityStages, Registered, SameEntry
<1>8. UnjournalStage'
  BY <1>3, RecordStage DEF UnjournalStage
<1>9. RegistryAgreement'
  <2>1. CASE op.kind \in UpdateKinds
    BY <1>1, <1>2, <2>1, RecordStage, SameEntryAgrees
  <2>2. CASE op.kind \notin UpdateKinds
    <3>1. op.kind \in {"StateTransition", "RootImport"}
      BY <2>2 DEF IdentityKinds
    <3>2. Journaled(op.id, op.kind)
      BY <2>2, <3>1, RecordStage DEF Journaled, OpJournal, JournalKind
    <3>3. UnlistedRecordIsJournaled'
      BY SMTT(60), <1>1, <1>2, RecordStage
         DEF IndInv, RegistryAgreement, UnlistedRecordIsJournaled, Registered, Journaled
    <3>4. MissingRecordIsJournaled'
      BY SMTT(60), <1>2, RecordStage
         DEF IndInv, RegistryAgreement, MissingRecordIsJournaled, Registered, Journaled
    <3>5. StaleSummaryIsJournaled'
      BY SMTT(60), <1>1, <1>2, <3>1, <3>2, RecordStage
         DEF IndInv, RegistryAgreement, StaleSummaryIsJournaled, Registered, Journaled
    <3>6. QED
      BY <3>3, <3>4, <3>5 DEF RegistryAgreement
  <2>3. QED
    BY <2>1, <2>2
<1>10. HandleCoherence'
  <2>1. op.p \in Procs
    BY RecordStage DEF Work
  <2>2. QED
    BY <1>1, <1>2, <2>1, RecordStage, NextGenCoheres
<1>11. QED
  BY SMTT(60), <1>4, <1>5, <1>6, <1>7, <1>8, <1>9, <1>10, RecordStage DEF IndInv

\* A deletion removes the record: still listed, journalled.
LEMMA RemoveRecordPreserves ==
    ASSUME IndInv, WriteRecord, op.kind = "NamespaceDelete"
    PROVE  IndInv'
<1>1. Registered(op.id, op.did) /\ identities'[op.id] = None
  BY RecordStage DEF IndInv, DeleteStages
<1>2. op'.stage = "registry"
  BY SMTT(60), RecordStage, OrderTable
<1>3. Journaled(op.id, "NamespaceDelete")
  BY RecordStage DEF Journaled, OpJournal, JournalKind, UpdateKinds
<1>4. CreatingIsHidden' /\ HeldIsListed'
  <2>1. /\ UNCHANGED <<registry, transactions, held>>
        /\ \A i \in Ids : i # op.id => identities'[i] = identities[i]
    BY RecordStage
  <2>2. CreatingIsHidden'
    BY SMTT(60), <1>1, <2>1 DEF IndInv, CreatingIsHidden, Registered
  <2>3. HeldIsListed'
    BY SMTT(60), <1>1, <2>1 DEF IndInv, HeldIsListed, Registered
  <2>4. QED
    BY <2>2, <2>3
<1>5. ProvisionStages' /\ DeleteStages' /\ IdentityStages' /\ UnjournalStage'
  BY <1>1, <1>2, RecordStage
     DEF ProvisionStages, DeleteStages, IdentityStages, UnjournalStage, IdentityKinds,
         UpdateKinds, Registered
<1>6. RegistryAgreement'
  BY SMTT(60), <1>1, <1>3, RecordStage
     DEF IndInv, RegistryAgreement, UnlistedRecordIsJournaled, MissingRecordIsJournaled,
         StaleSummaryIsJournaled, Registered, Journaled
<1>7. HandleCoherence'
  BY SMTT(60), <1>1, RecordStage DEF IndInv, HandleCoherence
<1>8. QED
  BY <1>4, <1>5, <1>6, <1>7, RecordStage DEF IndInv

\* What the invariant says about the lock holder at its registry write.
LEMMA RegistryStage ==
    ASSUME IndInv, WriteRegistry
    PROVE  /\ Working /\ op.stage = "registry" /\ Advance
           /\ op.kind \in WorkKinds \ UpdateKinds /\ op.id \in Ids /\ op.did \in Dids
           /\ registry'.ids[op.did] = RegistryEntry
           /\ \A d \in Dids : d # op.did => registry'.ids[d] = registry.ids[d]
           /\ UNCHANGED <<identities, secrets, transactions, updates, mode, view, held>>
           /\ op' \in Work /\ HandlerShape'
           /\ op'.stage = IF op.kind = "Create" THEN "activate" ELSE "unjournal"
           /\ op'.p = op.p /\ op'.kind = op.kind /\ op'.id = op.id /\ op'.did = op.did
           /\ op'.file = op.file /\ op'.kids = op.kids /\ op'.record = op.record
           /\ IF op.kind = "NamespaceDelete" THEN identities[op.id] = None
              ELSE /\ op.record \in IdentityRecord /\ op.record # None /\ op.record.did = op.did
                   /\ identities[op.id] = op.record
           /\ registry.ids[op.did] = None \/ registry.ids[op.did].id = op.id
           /\ \A d \in Dids : Registered(op.id, d) => d = op.did
           /\ TypeOK' /\ OneDidPerId' /\ JournalKept'
<1>1. /\ Working /\ op.stage = "registry" /\ Advance
      /\ registry' = [gen |-> registry.gen + 1,
                      ids |-> [registry.ids EXCEPT ![op.did] = RegistryEntry]]
      /\ UNCHANGED <<identities, secrets, transactions, updates, mode, view, held>>
  BY DEF WriteRegistry, At, Working
<1>2. /\ op \in Work /\ op' \in Work /\ HandlerShape'
      /\ op.stage \in DOMAIN Order[op.kind] /\ op'.stage = Order[op.kind][op.stage]
      /\ op'.p = op.p /\ op'.kind = op.kind /\ op'.id = op.id /\ op'.did = op.did
      /\ op'.file = op.file /\ op'.kids = op.kids /\ op'.record = op.record
  BY <1>1, Advances
<1>3. op.kind \in WorkKinds /\ op.id \in Ids /\ op.did \in Dids
  BY <1>2 DEF Work
<1>4. /\ op.kind \notin UpdateKinds
      /\ op'.stage = IF op.kind = "Create" THEN "activate" ELSE "unjournal"
  BY SMTT(60), <1>1, <1>2, <1>3, OrderTable DEF WorkKinds, StoreKinds, IdentityKinds, UpdateKinds
<1>5. op.kind # "NamespaceDelete" =>
        /\ op.record \in IdentityRecord /\ op.record # None /\ op.record.did = op.did
        /\ identities[op.id] = op.record
  <2>1. op.kind # "NamespaceDelete" => op.record \in IdentityRecord /\ op.record.did = op.did
    BY <1>1 DEF IndInv, HandlerShape
  <2>2. op.kind \in {"Create", "Provision"} => identities[op.id] = op.record
    BY <1>1 DEF IndInv, ProvisionStages
  <2>3. op.kind \in IdentityKinds => identities[op.id] = op.record
    BY <1>1 DEF IndInv, IdentityStages
  <2>4. QED
    BY <1>3, <2>1, <2>2, <2>3, NoneAssumption DEF WorkKinds, StoreKinds
<1>6. op.kind = "NamespaceDelete" => identities[op.id] = None
  BY <1>1 DEF IndInv, DeleteStages
<1>7. registry.ids[op.did] = None \/ registry.ids[op.did].id = op.id
  <2>1. op.kind \in {"Create", "Provision"} => registry.ids[op.did] = None
    BY <1>1 DEF IndInv, ProvisionStages
  <2>2. op.kind \in IdentityKinds => Registered(op.id, op.did)
    BY <1>1 DEF IndInv, IdentityStages
  <2>3. op.kind = "NamespaceDelete" => Registered(op.id, op.did)
    BY <1>1 DEF IndInv, DeleteStages
  <2>4. QED
    BY <1>3, <2>1, <2>2, <2>3 DEF WorkKinds, StoreKinds, Registered
<1>8. \A d \in Dids : Registered(op.id, d) => d = op.did
  BY <1>1, <1>3 DEF IndInv, OneDidPerId, Names
<1>9. RegistryEntry \in IdentitySummary \cup {None} /\ (RegistryEntry # None => RegistryEntry.id = op.id)
  BY <1>3, <1>5 DEF RegistryEntry, Summary, IdentitySummary, IdentityRecord, IdentityStates
<1>10. /\ registry'.ids[op.did] = RegistryEntry
       /\ \A d \in Dids : d # op.did => registry'.ids[d] = registry.ids[d]
       /\ registry' \in [gen : Nat, ids : [Dids -> IdentitySummary \cup {None}]]
  BY SMTT(60), <1>1, <1>3, <1>9 DEF IndInv, TypeOK
<1>11. TypeOK'
  BY <1>1, <1>2, <1>10 DEF IndInv, TypeOK
<1>12. OneDidPerId'
  <2>1. \A i \in Ids, d \in Dids : Registered(i, d)' =>
          Registered(i, d) \/ (i = op.id /\ d = op.did)
    BY <1>3, <1>9, <1>10 DEF Registered
  <2>2. QED
    BY <1>1, <2>1, SameNames
<1>13. JournalKept'
  <2>1. OpJournal' = OpJournal
    BY <1>2 DEF OpJournal
  <2>2. QED
    BY <1>1, <1>2, <1>4, <2>1 DEF IndInv, JournalKept
<1>14. QED
  BY SMTT(60), <1>1, <1>2, <1>3, <1>4, <1>5, <1>6, <1>7, <1>8, <1>10, <1>11, <1>12, <1>13

\* Writing the registry keeps the invariant.
LEMMA WriteRegistryPreserves ==
    ASSUME IndInv, WriteRegistry
    PROVE  IndInv'
<1>1. /\ op.kind = "NamespaceDelete" => RegistryEntry = None
      /\ op.kind = "Create" =>
            RegistryEntry = [id |-> op.id, state |-> "Active", root |-> op.record.root]
      /\ op.kind \notin {"Create", "NamespaceDelete"} =>
            RegistryEntry = Summary(op.id, op.record)
  BY DEF RegistryEntry, Summary
<1>2. Summary(op.id, op.record) =
        [id |-> op.id, state |-> op.record.state, root |-> op.record.root]
  BY DEF Summary
<1>3. RegistryEntry # None => RegistryEntry.id = op.id
  BY SMTT(60), <1>1, <1>2
<1>4. op.kind # "NamespaceDelete" => RegistryEntry # None
  <2>1. op.kind # "NamespaceDelete" =>
          op.record.state \in IdentityStates /\ op.record.root \in RootStates
    BY RegistryStage DEF IdentityRecord
  <2>2. op.kind # "NamespaceDelete" => RegistryEntry \in IdentitySummary
    BY SMTT(60), <1>1, <1>2, <2>1, RegistryStage DEF IdentitySummary, IdentityStates
  <2>3. QED
    BY <2>2, NoneAssumption
<1>5. /\ op.kind # "NamespaceDelete" => Registered(op.id, op.did)'
      /\ op.kind = "NamespaceDelete" => ~Registered(op.id, op.did)'
      /\ \A i \in Ids, d \in Dids : i # op.id => Registered(i, d)' = Registered(i, d)
      /\ \A d \in Dids : Registered(op.id, d)' => d = op.did
  <2>1. registry'.ids[op.did] = RegistryEntry
    BY RegistryStage
  <2>2. op.kind # "NamespaceDelete" => Registered(op.id, op.did)'
    BY <1>3, <1>4, <2>1, RegistryStage DEF Registered
  <2>3. op.kind = "NamespaceDelete" => ~Registered(op.id, op.did)'
    BY <1>1, <2>1, RegistryStage DEF Registered
  <2>4. \A i \in Ids, d \in Dids : i # op.id => Registered(i, d)' = Registered(i, d)
    BY SMTT(60), <1>3, RegistryStage DEF Registered
  <2>5. \A d \in Dids : Registered(op.id, d)' => d = op.did
    BY RegistryStage DEF Registered
  <2>6. QED
    BY <2>2, <2>3, <2>4, <2>5
<1>6. op.kind # "NamespaceDelete" /\ op.record.state = "Creating" => op.kind = "Create"
  BY RegistryStage DEF IndInv, ProvisionStages, IdentityStages, WorkKinds, StoreKinds
<1>7. CreatingIsHidden'
  <2>1. SUFFICES ASSUME NEW i \in Ids, identities[i] # None, identities[i].state = "Creating"
                 PROVE  /\ identities[i].root # "Pending"
                        /\ \A p \in Procs : held[p][i] = None
                        /\ \A j \in transactions :
                              j.id = i => j.kind \notin {"StateTransition", "RootImport"}
                        /\ \A d \in Dids : Registered(i, d)' =>
                              /\ registry'.ids[d].state = "Active"
                              /\ registry'.ids[d].root = identities[i].root
    BY SMTT(60), RegistryStage DEF CreatingIsHidden
  <2>2. CASE i = op.id
    <3>1. op.kind = "Create" /\ identities[op.id] = op.record
      BY <1>6, <2>1, <2>2, RegistryStage
    <3>2. /\ registry'.ids[op.did].state = "Active"
          /\ registry'.ids[op.did].root = op.record.root
      BY SMTT(60), <1>1, <3>1, RegistryStage
    <3>3. QED
      BY <1>5, <2>1, <2>2, <3>1, <3>2, RegistryStage DEF IndInv, CreatingIsHidden
  <2>3. CASE i # op.id
    <3>1. \A d \in Dids : Registered(i, d)' => registry'.ids[d] = registry.ids[d]
      BY <1>3, <2>3, RegistryStage DEF Registered
    <3>2. QED
      BY SMTT(60), <1>5, <2>1, <2>3, <3>1 DEF IndInv, CreatingIsHidden
  <2>4. QED
    BY <2>2, <2>3
<1>8. HeldIsListed'
  <2>1. SUFFICES ASSUME NEW i \in Ids, identities[i] # None,
                        \/ \E p \in Procs : held[p][i] # None
                        \/ \E j \in transactions :
                              j.id = i /\ j.kind \in {"StateTransition", "RootImport"}
                 PROVE  Registered(i, identities[i].did)'
    BY SMTT(60), RegistryStage DEF HeldIsListed, Registered
  <2>2. Registered(i, identities[i].did) /\ identities[i].did \in Dids
    BY <2>1 DEF IndInv, HeldIsListed, TypeOK, IdentityRecord
  <2>3. CASE i = op.id
    BY SMTT(60), <1>5, <2>1, <2>3, RegistryStage DEF Registered
  <2>4. CASE i # op.id
    <3>1. identities'[i] = identities[i]
      BY RegistryStage
    <3>2. QED
      BY SMTT(60), <1>5, <2>2, <2>4, <3>1, RegistryStage DEF Registered
  <2>5. QED
    BY <2>3, <2>4
<1>9. ProvisionStages' /\ DeleteStages'
  <2>1. ProvisionStages'
    BY SMTT(60), <1>1, RegistryStage DEF IndInv, ProvisionStages
  <2>2. DeleteStages'
    BY <1>5, RegistryStage DEF DeleteStages
  <2>3. QED
    BY <2>1, <2>2
<1>10. IdentityStages'
  BY <1>5, RegistryStage DEF IndInv, IdentityStages, IdentityKinds, UpdateKinds
<1>11. UnjournalStage'
  <2>1. op.kind \notin {"Create", "NamespaceDelete"} =>
          /\ identities[op.id] # None /\ identities[op.id].state # "Creating"
          /\ registry'.ids[op.did] = Summary(op.id, identities[op.id])
    BY SMTT(60), <1>1, <1>6, RegistryStage
  <2>2. QED
    BY <2>1, RegistryStage DEF UnjournalStage
<1>12. RegistryAgreement'
  <2>1. transactions' = transactions /\ identities' = identities
    BY RegistryStage
  <2>2. UnlistedRecordIsJournaled'
    <3>1. SUFFICES ASSUME NEW i \in Ids, identities[i] # None,
                          ~Registered(i, identities[i].did)'
                   PROVE  Journaled(i, "Create")'
      BY RegistryStage DEF UnlistedRecordIsJournaled
    <3>2. identities[i].did \in Dids /\ identities'[i] = identities[i]
      BY <2>1, <3>1 DEF IndInv, TypeOK, IdentityRecord
    <3>3. i # op.id
      <4>1. SUFFICES ASSUME i = op.id PROVE FALSE
        OBVIOUS
      <4>2. op.kind # "NamespaceDelete" /\ identities[op.id].did = op.did
        BY <3>1, <4>1, RegistryStage
      <4>3. Registered(op.id, op.did)' /\ op'.id = op.id /\ op'.did = op.did
        BY <1>5, <4>2, RegistryStage
      <4>4. QED
        BY <2>1, <3>1, <4>1, <4>2, <4>3 DEF Registered
    <3>4. ~Registered(i, identities[i].did)
      BY <1>5, <3>1, <3>2, <3>3
    <3>5. QED
      BY <2>1, <3>1, <3>4 DEF IndInv, RegistryAgreement, UnlistedRecordIsJournaled, Journaled
  <2>3. MissingRecordIsJournaled'
    <3>1. SUFFICES ASSUME NEW i \in Ids, NEW d \in Dids, Registered(i, d)', identities[i] = None
                   PROVE  Journaled(i, "NamespaceDelete")'
      BY RegistryStage DEF MissingRecordIsJournaled
    <3>2. i # op.id
      BY <1>5, <3>1, RegistryStage
    <3>3. QED
      BY SMTT(60), <1>5, <2>1, <3>1, <3>2
         DEF IndInv, RegistryAgreement, MissingRecordIsJournaled, Journaled
  <2>4. StaleSummaryIsJournaled'
    <3>1. SUFFICES ASSUME NEW i \in Ids, NEW d \in Dids, Registered(i, d)', identities[i] # None
                   PROVE  /\ identities[i].did = d
                          /\ \/ registry'.ids[d] = Summary(i, identities[i])
                             \/ identities[i].state = "Creating" /\ Journaled(i, "Create")
                             \/ Journaled(i, "StateTransition")
                             \/ RootImported(identities[i]) /\ Journaled(i, "RootImport")
      BY SMTT(60), <2>1 DEF StaleSummaryIsJournaled, Journaled
    <3>2. CASE i = op.id
      <4>1. d = op.did /\ op.kind # "NamespaceDelete" /\ identities[i] = op.record
              /\ op.record.did = op.did
        BY <1>5, <3>1, <3>2, RegistryStage
      <4>2. CASE op.kind = "Create"
        <5>1. Journaled(op.id, "Create")
          BY <4>2, RegistryStage DEF IndInv, JournalKept, OpJournal, JournalKind, Journaled,
                                     UpdateKinds
        <5>2. op.record.state = "Creating" \/ registry'.ids[d] = Summary(i, identities[i])
          BY <3>2, <4>1, <4>2, RegistryStage DEF IndInv, ProvisionStages
        <5>3. QED
          BY <3>2, <4>1, <5>1, <5>2
      <4>3. CASE op.kind # "Create"
        BY <1>1, <3>2, <4>1, <4>3, RegistryStage
      <4>4. QED
        BY <4>2, <4>3
    <3>3. CASE i # op.id
      <4>1. Registered(i, d) /\ registry'.ids[d] = registry.ids[d]
        BY <1>3, <1>5, <3>1, <3>3, RegistryStage DEF Registered
      <4>2. QED
        BY <3>1, <4>1 DEF IndInv, RegistryAgreement, StaleSummaryIsJournaled
    <3>4. QED
      BY <3>2, <3>3
  <2>5. QED
    BY <2>2, <2>3, <2>4 DEF RegistryAgreement
<1>13. HandleCoherence'
  BY SMTT(60), RegistryStage DEF IndInv, HandleCoherence
<1>14. QED
  BY <1>7, <1>8, <1>9, <1>10, <1>11, <1>12, <1>13, RegistryStage DEF IndInv

\* A creation makes its record active after it is listed.
LEMMA ActivateRecordPreserves ==
    ASSUME IndInv, ActivateRecord
    PROVE  IndInv'
<1> DEFINE active == [op.record EXCEPT !.state = "Active"]
<1>1. /\ Working /\ op.stage = "activate" /\ Advance
      /\ identities' = [identities EXCEPT ![op.id] = active]
      /\ UNCHANGED <<registry, secrets, transactions, updates, mode, view, held>>
  BY DEF ActivateRecord, At, Working
<1>2. /\ op \in Work /\ op' \in Work /\ HandlerShape'
      /\ op.stage \in DOMAIN Order[op.kind] /\ op'.stage = Order[op.kind][op.stage]
      /\ op'.p = op.p /\ op'.kind = op.kind /\ op'.id = op.id /\ op'.did = op.did
      /\ op'.file = op.file /\ op'.kids = op.kids /\ op'.record = op.record
  BY <1>1, Advances
<1>3. op.kind \in WorkKinds /\ op.id \in Ids /\ op.did \in Dids
  BY <1>2 DEF Work
<1>4. op.kind = "Create" /\ op'.stage = "unjournal"
  BY SMTT(60), <1>1, <1>2, <1>3, OrderTable DEF WorkKinds, StoreKinds, IdentityKinds, UpdateKinds
<1>5. /\ op.record.state = "Creating" /\ identities[op.id] = op.record
      /\ registry.ids[op.did] = [id |-> op.id, state |-> "Active", root |-> op.record.root]
      /\ \A j \in transactions : j.id = op.id => j.kind = "Create"
      /\ op.record.root # "Pending"
  BY <1>1, <1>4 DEF IndInv, ProvisionStages
<1>6. op.record \in IdentityRecord /\ op.record.did = op.did /\ op.record # None
  BY <1>1, <1>4, NoneAssumption DEF IndInv, HandlerShape
<1>7. /\ active \in IdentityRecord /\ active # None /\ active.did = op.did
      /\ active.state = "Active" /\ active.root = op.record.root
  BY <1>6, NoneAssumption DEF IdentityRecord, IdentityStates
<1> HIDE DEF active
<1>8. /\ identities'[op.id] = active
      /\ \A i \in Ids : i # op.id => identities'[i] = identities[i]
  BY <1>1, <1>3 DEF IndInv, TypeOK
<1>9. registry.ids[op.did] = Summary(op.id, active)
  BY <1>5, <1>7 DEF Summary
<1>10. \A p \in Procs : held[p][op.id] = None
  BY <1>3, <1>5, <1>6 DEF IndInv, CreatingIsHidden
<1>11. Registered(op.id, op.did)
  <2>1. registry.ids[op.did] \in IdentitySummary
    BY SMTT(60), <1>3, <1>5, <1>6 DEF IdentitySummary, IdentityRecord, IdentityStates
  <2>2. QED
    BY SMTT(60), <1>5, <2>1, NoneAssumption DEF Registered
<1>12. \A d \in Dids : Registered(op.id, d) => d = op.did
  BY <1>1, <1>3 DEF IndInv, OneDidPerId, Names
<1>13. TypeOK'
  BY <1>1, <1>2, <1>7 DEF IndInv, TypeOK
<1>14. OneDidPerId'
  BY <1>1, <1>7, <1>8, SameNames DEF Registered
<1>15. JournalKept'
  <2>1. OpJournal' = OpJournal
    BY <1>2 DEF OpJournal
  <2>2. QED
    BY <1>1, <1>2, <1>4, <2>1 DEF IndInv, JournalKept
<1>16. CreatingIsHidden' /\ HeldIsListed' /\ HandleCoherence'
  <2>1. CreatingIsHidden'
    BY SMTT(60), <1>1, <1>7, <1>8 DEF IndInv, CreatingIsHidden, Registered
  <2>2. HeldIsListed'
    BY SMTT(60), <1>1, <1>5, <1>8, <1>10 DEF IndInv, HeldIsListed, Registered
  <2>3. HandleCoherence'
    BY SMTT(60), <1>1, <1>8, <1>10 DEF IndInv, HandleCoherence
  <2>4. QED
    BY <2>1, <2>2, <2>3
<1>17. ProvisionStages' /\ DeleteStages' /\ IdentityStages'
  BY <1>1, <1>2, <1>4, <1>5
     DEF ProvisionStages, DeleteStages, IdentityStages, IdentityKinds, UpdateKinds
<1>18. UnjournalStage'
  BY <1>1, <1>2, <1>7, <1>8, <1>9 DEF UnjournalStage
<1>19. RegistryAgreement'
  <2>1. \A i \in Ids, d \in Dids : Registered(i, d)' <=> Registered(i, d)
    BY <1>1 DEF Registered
  <2>2. \A i \in Ids : identities[i] # None => identities[i].did \in Dids
    BY DEF IndInv, TypeOK, IdentityRecord
  <2>3. UnlistedRecordIsJournaled'
    BY SMTT(60), <1>1, <1>3, <1>7, <1>8, <1>11, <2>1, <2>2
       DEF IndInv, RegistryAgreement, UnlistedRecordIsJournaled, Journaled
  <2>4. MissingRecordIsJournaled'
    BY SMTT(60), <1>1, <1>7, <1>8, <2>1
       DEF IndInv, RegistryAgreement, MissingRecordIsJournaled, Journaled
  <2>5. StaleSummaryIsJournaled'
    BY SMTT(60), <1>1, <1>7, <1>8, <1>9, <1>12, <2>1
       DEF IndInv, RegistryAgreement, StaleSummaryIsJournaled, Journaled
  <2>6. QED
    BY <2>3, <2>4, <2>5 DEF RegistryAgreement
<1>20. QED
  BY <1>2, <1>13, <1>14, <1>15, <1>16, <1>17, <1>18, <1>19 DEF IndInv

\* The handler removes its journal: what it journalled has been done.
LEMMA FinishPreserves ==
    ASSUME IndInv, Finish
    PROVE  IndInv'
<1>1. /\ Working /\ op.stage = "unjournal" /\ op' = None
      /\ transactions' = IF op.kind \in UpdateKinds THEN transactions
                         ELSE {j \in transactions : j.tx # op.file}
      /\ updates' = IF op.kind \in UpdateKinds THEN {u \in updates : u.rev # op.file}
                    ELSE updates
      /\ view' = IF op.kind \in StoreKinds THEN [view EXCEPT ![op.p] = registry.gen] ELSE view
      /\ held' = IF op.kind = "NamespaceDelete" THEN held
                 ELSE [held EXCEPT ![op.p][op.id] = identities[op.id]]
      /\ UNCHANGED <<registry, identities, secrets, mode>>
  BY DEF Finish, At, Working
<1>2. op \in Work /\ op.kind \in WorkKinds /\ op.id \in Ids /\ op.did \in Dids /\ op.p \in Procs
  BY <1>1 DEF IndInv, HandlerShape, Work
<1>3. \A d \in Dids : Names(op.id, d) => d = op.did
  BY <1>1, <1>2 DEF IndInv, OneDidPerId, Names
<1>4. op.kind # "NamespaceDelete" =>
        /\ identities[op.id] # None /\ identities[op.id].state # "Creating"
        /\ Registered(op.id, op.did) /\ identities[op.id].did = op.did
  <2>1. identities[op.id] # None => identities[op.id].did = op.did
    BY <1>2, <1>3 DEF Names, IndInv, TypeOK, IdentityRecord
  <2>2. CASE op.kind \in IdentityKinds
    BY <1>1, <2>1, <2>2 DEF IndInv, IdentityStages
  <2>3. CASE op.kind \in {"Create", "Provision"}
    <3>1. /\ identities[op.id] # None /\ identities[op.id].state # "Creating"
          /\ registry.ids[op.did] = Summary(op.id, identities[op.id])
      BY <1>1, <2>3 DEF IndInv, UnjournalStage, UpdateKinds
    <3>2. Summary(op.id, identities[op.id]) \in IdentitySummary
      BY <1>2, <3>1 DEF IndInv, TypeOK, IdentityRecord, Summary, IdentitySummary
    <3>3. Registered(op.id, op.did)
      BY SMTT(60), <3>1, <3>2, NoneAssumption DEF Registered, Summary
    <3>4. QED
      BY <2>1, <3>1, <3>3
  <2>4. QED
    BY <1>2, <2>2, <2>3 DEF WorkKinds, StoreKinds
<1>5. \A q \in Procs, i \in Ids :
        \/ held'[q][i] = held[q][i]
        \/ i = op.id /\ held'[q][i] = identities[op.id] /\ op.kind # "NamespaceDelete"
  BY <1>1, <1>2 DEF IndInv, TypeOK
<1>6. TypeOK'
  <2>1. held' \in [Procs -> [Ids -> IdentityRecord \cup {None}]]
    BY <1>1, <1>2 DEF IndInv, TypeOK
  <2>2. view' \in [Procs -> Nat]
    BY <1>1, <1>2 DEF IndInv, TypeOK
  <2>3. transactions' \subseteq CreationJournal /\ updates' \subseteq UpdateJournal
    BY <1>1 DEF IndInv, TypeOK
  <2>4. QED
    BY <1>1, <2>1, <2>2, <2>3 DEF IndInv, TypeOK
<1>7. OneDidPerId'
  <2>1. transactions' \subseteq transactions
    BY <1>1
  <2>2. \A i \in Ids, d \in Dids : Names(i, d)' => Names(i, d)
    BY <1>1, <2>1 DEF Names, Registered, Working
  <2>3. QED
    BY <2>2 DEF IndInv, OneDidPerId
<1>8. transactions' \subseteq transactions
  BY <1>1
<1>9. CreatingIsHidden'
  BY SMTT(60), <1>1, <1>4, <1>5, <1>8 DEF IndInv, CreatingIsHidden, Registered
<1>10. HeldIsListed'
  BY SMTT(60), <1>1, <1>4, <1>5, <1>8 DEF IndInv, HeldIsListed, Registered
<1>11. HandleCoherence'
  <2>1. \A i \in Ids : identities[i] # None => identities[i].gen \in Nat
    BY DEF IndInv, TypeOK, IdentityRecord
  <2>2. QED
    BY SMTT(60), <1>1, <1>5, <2>1 DEF IndInv, HandleCoherence
<1>12. RegistryAgreement'
  <2>1. \A j \in transactions : j \in transactions' \/ (op.kind \notin UpdateKinds /\ j = OpJournal)
    BY <1>1 DEF IndInv, JournalKept
  <2>2. OpJournal.id = op.id /\ OpJournal.kind = JournalKind(op.kind)
    BY DEF OpJournal
  <2>3. op.kind \notin UpdateKinds /\ op.kind # "NamespaceDelete" =>
          registry.ids[op.did] = Summary(op.id, identities[op.id])
    BY <1>1 DEF IndInv, UnjournalStage
  <2>4. op.kind = "NamespaceDelete" => identities[op.id] = None /\ ~Registered(op.id, op.did)
    BY <1>1 DEF IndInv, DeleteStages
  <2>5. \A d \in Dids : Registered(op.id, d) => d = op.did
    BY <1>3 DEF Names
  <2>6. UnlistedRecordIsJournaled'
    BY SMTT(60), <1>1, <1>4, <2>1, <2>2, <2>4
       DEF IndInv, RegistryAgreement, UnlistedRecordIsJournaled, Registered, Journaled
  <2>7. MissingRecordIsJournaled'
    BY SMTT(60), <1>1, <1>4, <2>1, <2>2, <2>4, <2>5
       DEF IndInv, RegistryAgreement, MissingRecordIsJournaled, Registered, Journaled
  <2>8. StaleSummaryIsJournaled'
    BY SMTT(60), <1>1, <1>4, <2>1, <2>2, <2>3, <2>4, <2>5
       DEF IndInv, RegistryAgreement, StaleSummaryIsJournaled, Registered, Journaled
  <2>9. QED
    BY <2>6, <2>7, <2>8 DEF RegistryAgreement
<1>13. /\ HandlerShape' /\ JournalKept' /\ ProvisionStages' /\ DeleteStages'
       /\ IdentityStages' /\ UnjournalStage'
  BY <1>1 DEF HandlerShape, JournalKept, ProvisionStages, DeleteStages, IdentityStages,
              UnjournalStage, Working
<1>14. QED
  BY <1>6, <1>7, <1>9, <1>10, <1>11, <1>12, <1>13 DEF IndInv

-----------------------------------------------------------------------------
(* Every step of a handler preserves the invariant.                         *)

\* A durable write of the handler at work.
LEMMA HandlerStepPreserves ==
    ASSUME IndInv, HandlerStep
    PROVE  IndInv'
<1> USE DEF IndInv
<1>1. ASSUME WriteJournal PROVE IndInv'
  BY <1>1, WriteJournalPreserves
<1>2. ASSUME WriteUpdateJournal PROVE IndInv'
  <2>1. Working /\ op.stage = "journal" /\ Advance /\ op.kind \in UpdateKinds
    BY <1>2 DEF WriteUpdateJournal, At, Working
  <2>2. op' \in Work /\ op \in Work /\ op.file \in Revs
    BY <2>1, Advances DEF HandlerShape
  <2>3. [rev |-> op.file, kind |-> op.kind, id |-> op.id, kids |-> op.kids] \in UpdateJournal
    BY <2>1, <2>2 DEF UpdateJournal, UpdateKinds, Work
  <2>4. TypeOK'
    BY <1>2, <2>2, <2>3 DEF WriteUpdateJournal, TypeOK
  <2>5. QED
    BY <1>2, <2>1, <2>4, AdvancePreserves DEF WriteUpdateJournal
<1>3. ASSUME NEW k \in Kids, SealSecret(k) PROVE IndInv'
  <2>1. op.id \in Ids /\ op.material \in Materials
    BY <1>3 DEF SealSecret, At, HandlerShape, Working, Work
  <2>2. TypeOK'
    BY <1>3, <2>1 DEF SealSecret, TypeOK
  <2>3. QED
    BY <1>3, <2>2, SameLockPreserves DEF SealSecret
<1>4. ASSUME NEW k \in Kids, DropSecret(k) PROVE IndInv'
  <2>1. op.id \in Ids
    BY <1>4 DEF DropSecret, At, HandlerShape, Working, Work
  <2>2. TypeOK'
    BY <1>4, <2>1 DEF DropSecret, TypeOK
  <2>3. QED
    BY <1>4, <2>2, SameLockPreserves DEF DropSecret
<1>5. ASSUME SealVerified \/ SecretsDropped PROVE IndInv'
  <2>1. /\ Working /\ op.stage \in {"seal", "drop"} /\ Advance
        /\ UNCHANGED <<registry, identities, secrets, transactions, updates, mode, view, held>>
    BY <1>5 DEF SealVerified, SecretsDropped, At, Working
  <2>2. op' \in Work
    BY <2>1, Advances
  <2>3. TypeOK'
    BY <2>1, <2>2 DEF TypeOK
  <2>4. QED
    BY <2>1, <2>3, AdvancePreserves
<1>6. ASSUME SealMismatch PROVE IndInv'
  BY <1>6, ReleasePreserves DEF SealMismatch, TypeOK
<1>7. ASSUME WriteRecord PROVE IndInv'
  <2>1. op.kind \in WorkKinds
    BY <1>7, RecordStage
  <2>2. QED
    BY <1>7, <2>1, WriteNewRecordPreserves, WriteNextRecordPreserves, RemoveRecordPreserves
       DEF WorkKinds, StoreKinds
<1>8. ASSUME WriteRegistry PROVE IndInv'
  BY <1>8, WriteRegistryPreserves
<1>9. ASSUME ActivateRecord PROVE IndInv'
  BY <1>9, ActivateRecordPreserves
<1>10. ASSUME Finish PROVE IndInv'
  BY <1>10, FinishPreserves
<1>11. QED
  BY <1>1, <1>2, <1>3, <1>4, <1>5, <1>6, <1>7, <1>8, <1>9, <1>10 DEF HandlerStep
=============================================================================
