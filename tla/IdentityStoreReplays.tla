------------------------ MODULE IdentityStoreReplays ------------------------
(***************************************************************************)
(* The steps of recover() preserve the invariant of IdentityStore.         *)
(***************************************************************************)
EXTENDS IdentityStoreWrites

USE Zenon

-----------------------------------------------------------------------------
(* Every step of a recovery preserves the invariant.                        *)

\* Without a handler at work only the agreement of the files is at stake.
LEMMA NobodyWorks ==
    ASSUME ~Working', TypeOK', OneDidPerId', CreatingIsHidden', HeldIsListed',
           RegistryAgreement', HandleCoherence'
    PROVE  IndInv'
BY DEF IndInv, HandlerShape, JournalKept, ProvisionStages, DeleteStages, IdentityStages,
       UnjournalStage

\* The journal a recovery replays names the identity's only DID.
LEMMA ReplayedJournal ==
    ASSUME IndInv, NEW j \in transactions, Replays(j)
    PROVE  /\ ~Working
           /\ j \in CreationJournal /\ j.id \in Ids /\ j.did \in Dids
           /\ \A d \in Dids : Registered(j.id, d) => d = j.did
           /\ identities[j.id] # None => /\ identities[j.id] \in IdentityRecord
                                         /\ identities[j.id].did = j.did
<1>1. j \in CreationJournal /\ j.id \in Ids /\ j.did \in Dids
  BY DEF IndInv, TypeOK, CreationJournal
<1>2. Names(j.id, j.did)
  BY DEF Names
<1>3. \A d \in Dids : Names(j.id, d) => d = j.did
  BY <1>1, <1>2 DEF IndInv, OneDidPerId
<1>4. identities[j.id] # None => identities[j.id] \in IdentityRecord
  BY <1>1 DEF IndInv, TypeOK
<1>5. identities[j.id] # None => identities[j.id].did = j.did
  BY <1>3, <1>4 DEF Names, IdentityRecord
<1>6. \A d \in Dids : Registered(j.id, d) => d = j.did
  BY <1>3 DEF Names
<1>7. QED
  BY <1>1, <1>4, <1>5, <1>6 DEF Replays, At, Working

\* Recovery removes the record of an identity being deleted, or never listed.
LEMMA ReplayRemoveIdentityPreserves ==
    ASSUME IndInv, NEW j \in transactions, ReplayRemoveIdentity(j)
    PROVE  IndInv'
<1>1. /\ Replays(j) /\ identities' = [identities EXCEPT ![j.id] = None]
      /\ UNCHANGED <<registry, secrets, transactions, updates, op, mode, view, held>>
      /\ \/ j.kind = "NamespaceDelete"
         \/ j.kind = "Create" /\ ~Registered(j.id, j.did)
  BY DEF ReplayRemoveIdentity, Undoes
<1>2. /\ ~Working /\ j.id \in Ids /\ j.did \in Dids
      /\ \A d \in Dids : Registered(j.id, d) => d = j.did
  BY <1>1, ReplayedJournal
<1>3. /\ identities'[j.id] = None
      /\ \A i \in Ids : i # j.id => identities'[i] = identities[i]
  BY <1>1, <1>2 DEF IndInv, TypeOK
<1>4. TypeOK' /\ ~Working'
  BY <1>1, <1>2 DEF IndInv, TypeOK, Working
<1>5. OneDidPerId'
  <2>1. \A i \in Ids, d \in Dids : Names(i, d)' => Names(i, d)
    BY <1>1, <1>3, <1>4 DEF Names, Registered
  <2>2. QED
    BY <2>1 DEF IndInv, OneDidPerId
<1>6. CreatingIsHidden'
  BY SMTT(60), <1>1, <1>3 DEF IndInv, CreatingIsHidden, Registered
<1>7. HeldIsListed'
  BY SMTT(60), <1>1, <1>3 DEF IndInv, HeldIsListed, Registered
<1>8. HandleCoherence'
  BY SMTT(60), <1>1, <1>3 DEF IndInv, HandleCoherence
<1>9. RegistryAgreement'
  BY SMTT(60), <1>1, <1>2, <1>3
     DEF IndInv, RegistryAgreement, UnlistedRecordIsJournaled, MissingRecordIsJournaled,
         StaleSummaryIsJournaled, Registered, Journaled
<1>10. QED
  BY <1>4, <1>5, <1>6, <1>7, <1>8, <1>9, NobodyWorks

\* Recovery takes a deleted identity out of the registry.
LEMMA ReplayDeregisterPreserves ==
    ASSUME IndInv, NEW j \in transactions, ReplayDeregister(j)
    PROVE  IndInv'
<1>1. /\ Replays(j) /\ identities[j.id] = None /\ Registered(j.id, j.did)
      /\ registry' = [gen |-> registry.gen + 1, ids |-> [registry.ids EXCEPT ![j.did] = None]]
      /\ UNCHANGED <<identities, secrets, transactions, updates, op, mode, view, held>>
  BY DEF ReplayDeregister, IdentityGone
<1>2. ~Working /\ j.id \in Ids /\ j.did \in Dids
  BY <1>1, ReplayedJournal
<1>3. /\ registry'.ids[j.did] = None
      /\ \A d \in Dids : d # j.did => registry'.ids[d] = registry.ids[d]
  BY <1>1, <1>2 DEF IndInv, TypeOK
<1>4. TypeOK' /\ ~Working'
  BY SMTT(60), <1>1, <1>2 DEF IndInv, TypeOK, Working
<1>5. \A i \in Ids, d \in Dids : Registered(i, d)' <=> Registered(i, d) /\ d # j.did
  BY SMTT(60), <1>3 DEF Registered
<1>6. \A i \in Ids : identities[i] # None /\ Registered(i, identities[i].did)
                        => Registered(i, identities[i].did)'
  BY SMTT(60), <1>1, <1>2, <1>5 DEF Registered, IndInv, TypeOK, IdentityRecord
<1>7. OneDidPerId'
  <2>1. \A i \in Ids, d \in Dids : Names(i, d)' => Names(i, d)
    BY <1>1, <1>4, <1>5 DEF Names
  <2>2. QED
    BY <2>1 DEF IndInv, OneDidPerId
<1>8. CreatingIsHidden'
  BY SMTT(60), <1>1, <1>3, <1>5 DEF IndInv, CreatingIsHidden
<1>9. HeldIsListed'
  BY <1>1, <1>6 DEF IndInv, HeldIsListed
<1>10. HandleCoherence'
  BY <1>1 DEF IndInv, HandleCoherence
<1>11. RegistryAgreement'
  BY SMTT(60), <1>1, <1>3, <1>5, <1>6
     DEF IndInv, RegistryAgreement, UnlistedRecordIsJournaled, MissingRecordIsJournaled,
         StaleSummaryIsJournaled, Journaled
<1>12. QED
  BY SMTT(60), <1>4, <1>7, <1>8, <1>9, <1>10, <1>11, NobodyWorks

\* Recovery brings the summary of a listed identity up to date.
LEMMA ReplaySyncPreserves ==
    ASSUME IndInv, NEW j \in transactions, ReplaySync(j)
    PROVE  IndInv'
<1> DEFINE new == Summary(j.id, identities[j.id])
<1>1. /\ Replays(j) /\ identities[j.id] # None
      /\ j.kind \in {"StateTransition", "RootImport"}
      /\ registry' = [gen |-> registry.gen + 1, ids |-> [registry.ids EXCEPT ![j.did] = new]]
      /\ UNCHANGED <<identities, secrets, transactions, updates, op, mode, view, held>>
  BY DEF ReplaySync, Syncs, Readable
<1>2. /\ ~Working /\ j.id \in Ids /\ j.did \in Dids
      /\ identities[j.id] \in IdentityRecord /\ identities[j.id].did = j.did
      /\ \A d \in Dids : Registered(j.id, d) => d = j.did
  BY <1>1, ReplayedJournal
<1>3. Registered(j.id, j.did) /\ identities[j.id].state # "Creating"
  BY <1>1, <1>2 DEF IndInv, HeldIsListed, CreatingIsHidden
<1>4. new \in IdentitySummary /\ new # None /\ new.id = j.id
  BY SMTT(60), <1>2, NoneAssumption DEF Summary, IdentitySummary, IdentityRecord
<1>5. new = Summary(j.id, identities[j.id])
  OBVIOUS
<1> HIDE DEF new
<1>6. /\ registry'.ids[j.did] = new
      /\ \A d \in Dids : d # j.did => registry'.ids[d] = registry.ids[d]
  BY <1>1, <1>2 DEF IndInv, TypeOK
<1>7. \A i \in Ids, d \in Dids : Registered(i, d)' <=> Registered(i, d)
  BY <1>3, <1>4, <1>6 DEF Registered
<1>8. \A i \in Ids : identities[i] # None => identities[i].did \in Dids
  BY DEF IndInv, TypeOK, IdentityRecord
<1>9. TypeOK' /\ ~Working'
  BY SMTT(60), <1>1, <1>2, <1>4 DEF IndInv, TypeOK, Working
<1>10. OneDidPerId'
  <2>1. \A i \in Ids, d \in Dids : Names(i, d)' => Names(i, d)
    BY <1>1, <1>7, <1>9 DEF Names
  <2>2. QED
    BY <2>1 DEF IndInv, OneDidPerId
<1>11. CreatingIsHidden'
  BY SMTT(60), <1>1, <1>2, <1>3, <1>6, <1>7 DEF IndInv, CreatingIsHidden, Registered
<1>12. HeldIsListed'
  BY <1>1, <1>7, <1>8 DEF IndInv, HeldIsListed
<1>13. HandleCoherence'
  BY <1>1 DEF IndInv, HandleCoherence
<1>14. RegistryAgreement'
  <2>1. UnlistedRecordIsJournaled'
    BY <1>1, <1>7, <1>8 DEF IndInv, RegistryAgreement, UnlistedRecordIsJournaled, Journaled
  <2>2. MissingRecordIsJournaled'
    BY <1>1, <1>7 DEF IndInv, RegistryAgreement, MissingRecordIsJournaled, Journaled
  <2>3. StaleSummaryIsJournaled'
    BY SMTT(60), <1>1, <1>2, <1>3, <1>5, <1>6, <1>7
       DEF IndInv, RegistryAgreement, StaleSummaryIsJournaled, Journaled, Registered
  <2>4. QED
    BY <2>1, <2>2, <2>3 DEF RegistryAgreement
<1>15. QED
  BY SMTT(60), <1>9, <1>10, <1>11, <1>12, <1>13, <1>14, NobodyWorks

\* Recovery activates the record of a listed creation.
LEMMA ReplayActivatePreserves ==
    ASSUME IndInv, NEW j \in transactions, ReplayActivate(j)
    PROVE  IndInv'
<1> DEFINE active == [identities[j.id] EXCEPT !.state = "Active"]
<1>1. /\ Replays(j) /\ identities[j.id] # None /\ identities[j.id].state = "Creating"
      /\ Registered(j.id, j.did)
      /\ identities' = [identities EXCEPT ![j.id] = active]
      /\ UNCHANGED <<registry, secrets, transactions, updates, op, mode, view, held>>
  BY DEF ReplayActivate, Readable
<1>2. /\ ~Working /\ j.id \in Ids /\ j.did \in Dids
      /\ identities[j.id] \in IdentityRecord /\ identities[j.id].did = j.did
      /\ \A d \in Dids : Registered(j.id, d) => d = j.did
  BY <1>1, ReplayedJournal
<1>3. /\ active \in IdentityRecord /\ active # None /\ active.did = j.did
      /\ active.state = "Active" /\ active.root = identities[j.id].root
  BY SMTT(60), <1>2, NoneAssumption DEF IdentityRecord, IdentityStates
<1> HIDE DEF active
<1>4. /\ identities'[j.id] = active
      /\ \A i \in Ids : i # j.id => identities'[i] = identities[i]
  BY <1>1, <1>2 DEF IndInv, TypeOK
<1>5. \A p \in Procs : held[p][j.id] = None
  BY <1>1, <1>2 DEF IndInv, CreatingIsHidden
<1>6. registry.ids[j.did] = Summary(j.id, active)
  <2>1. registry.ids[j.did] \in IdentitySummary /\ registry.ids[j.did].id = j.id
    BY <1>1, <1>2 DEF IndInv, TypeOK, Registered
  <2>2. registry.ids[j.did].state = "Active" /\ registry.ids[j.did].root = active.root
    BY <1>1, <1>2, <1>3 DEF IndInv, CreatingIsHidden
  <2>3. QED
    BY <1>3, <2>1, <2>2 DEF IdentitySummary, Summary
<1>7. \A k \in transactions : k.id = j.id => k.kind \notin {"StateTransition", "RootImport"}
  BY <1>1, <1>2 DEF IndInv, CreatingIsHidden
<1>8. TypeOK' /\ ~Working'
  BY <1>1, <1>2, <1>3 DEF IndInv, TypeOK, Working
<1>9. OneDidPerId'
  <2>1. \A i \in Ids, d \in Dids : Names(i, d)' => Names(i, d)
    BY SMTT(60), <1>1, <1>2, <1>3, <1>4, <1>8 DEF Names, Registered
  <2>2. QED
    BY <2>1 DEF IndInv, OneDidPerId
<1>10. CreatingIsHidden'
  BY SMTT(60), <1>1, <1>3, <1>4 DEF IndInv, CreatingIsHidden, Registered
<1>11. HeldIsListed'
  BY SMTT(60), <1>1, <1>4, <1>5, <1>7 DEF IndInv, HeldIsListed, Registered
<1>12. HandleCoherence'
  BY SMTT(60), <1>1, <1>4, <1>5 DEF IndInv, HandleCoherence
<1>13. RegistryAgreement'
  BY SMTT(60), <1>1, <1>2, <1>3, <1>4, <1>6
     DEF IndInv, RegistryAgreement, UnlistedRecordIsJournaled, MissingRecordIsJournaled,
         StaleSummaryIsJournaled, Registered, Journaled
<1>14. QED
  BY <1>8, <1>9, <1>10, <1>11, <1>12, <1>13, NobodyWorks

\* Recovery removes a journal with nothing left to do.
LEMMA ReplayForgetPreserves ==
    ASSUME IndInv, NEW j \in transactions, ReplayForget(j)
    PROVE  IndInv'
<1>1. /\ Replays(j) /\ Settled(j) /\ transactions' = transactions \ {j}
      /\ UNCHANGED <<registry, identities, secrets, updates, op, mode, view, held>>
  BY DEF ReplayForget
<1>2. /\ ~Working /\ j.id \in Ids /\ j.did \in Dids
      /\ \A d \in Dids : Registered(j.id, d) => d = j.did
      /\ identities[j.id] # None => identities[j.id].did = j.did
  BY <1>1, ReplayedJournal
<1>3. TypeOK' /\ ~Working'
  BY <1>1, <1>2 DEF IndInv, TypeOK, Working
<1>4. OneDidPerId'
  <2>1. \A i \in Ids, d \in Dids : Names(i, d)' => Names(i, d)
    BY <1>1, <1>3 DEF Names, Registered
  <2>2. QED
    BY <2>1 DEF IndInv, OneDidPerId
<1>5. CreatingIsHidden' /\ HeldIsListed' /\ HandleCoherence'
  <2>1. CreatingIsHidden'
    BY SMTT(60), <1>1 DEF IndInv, CreatingIsHidden, Registered
  <2>2. HeldIsListed'
    BY <1>1 DEF IndInv, HeldIsListed, Registered
  <2>3. HandleCoherence'
    BY <1>1 DEF IndInv, HandleCoherence
  <2>4. QED
    BY <2>1, <2>2, <2>3
<1>6. CASE identities[j.id] = None /\ ~Registered(j.id, j.did)
  <2>1. RegistryAgreement'
    BY SMTT(60), <1>1, <1>2, <1>6
       DEF IndInv, RegistryAgreement, UnlistedRecordIsJournaled, MissingRecordIsJournaled,
           StaleSummaryIsJournaled, Registered, Journaled
  <2>2. QED
    BY <1>3, <1>4, <1>5, <2>1, NobodyWorks
<1>7. CASE /\ j.kind = "Create" /\ Registered(j.id, j.did)
           /\ identities[j.id] # None /\ identities[j.id].state # "Creating"
  <2>1. RegistryAgreement'
    BY SMTT(60), <1>1, <1>2, <1>7
       DEF IndInv, RegistryAgreement, UnlistedRecordIsJournaled, MissingRecordIsJournaled,
           StaleSummaryIsJournaled, Registered, Journaled
  <2>2. QED
    BY <1>3, <1>4, <1>5, <2>1, NobodyWorks
<1>8. CASE /\ j.kind = "RootImport" /\ identities[j.id] # None
           /\ ~RootImported(identities[j.id])
  <2>1. RegistryAgreement'
    BY SMTT(60), <1>1, <1>2, <1>8
       DEF IndInv, RegistryAgreement, UnlistedRecordIsJournaled, MissingRecordIsJournaled,
           StaleSummaryIsJournaled, Registered, Journaled
  <2>2. QED
    BY <1>3, <1>4, <1>5, <2>1, NobodyWorks
<1>9. CASE /\ j.kind \in {"StateTransition", "RootImport"} /\ identities[j.id] # None
           /\ registry.ids[j.did] = Summary(j.id, identities[j.id])
  <2>1. RegistryAgreement'
    BY SMTT(60), <1>1, <1>2, <1>9
       DEF IndInv, RegistryAgreement, UnlistedRecordIsJournaled, MissingRecordIsJournaled,
           StaleSummaryIsJournaled, Registered, Journaled
  <2>2. QED
    BY <1>3, <1>4, <1>5, <2>1, NobodyWorks
<1>10. QED
  BY <1>1, <1>6, <1>7, <1>8, <1>9
     DEF Settled, IdentityGone, Readable, Undoes, Syncs, Synced

\* Recovery finishes an interrupted cleanup: the pending revision goes.
LEMMA ReplayClearPendingPreserves ==
    ASSUME IndInv, NEW u \in updates, ReplayClearPending(u)
    PROVE  IndInv'
<1> DEFINE cleared == [identities[u.id] EXCEPT !.pending = None]
           next == NextGen(cleared)
<1>1. /\ op # None /\ op.stage = "recover" /\ transactions = {} /\ identities[u.id] # None
      /\ identities' = [identities EXCEPT ![u.id] = next]
      /\ UNCHANGED <<registry, secrets, transactions, updates, op, mode, view, held>>
  BY DEF ReplayClearPending, ReplaysUpdate, At
<1>2. u.id \in Ids /\ identities[u.id] \in IdentityRecord
  BY <1>1 DEF IndInv, TypeOK, UpdateJournal
<1>3. /\ cleared \in IdentityRecord /\ cleared.gen = identities[u.id].gen
      /\ SameEntry(cleared, identities[u.id])
  BY <1>2 DEF IdentityRecord, SameEntry
<1> HIDE DEF cleared
<1>4. next \in IdentityRecord /\ next.gen = identities[u.id].gen + 1
      /\ SameEntry(next, identities[u.id])
  BY SMTT(60), <1>3, NextGenType DEF SameEntry
<1> HIDE DEF next
<1>5. op.p \in Procs
  <2>1. op \notin Work
    BY <1>1 DEF Work, Stages
  <2>2. QED
    BY <1>1, <2>1 DEF IndInv, TypeOK, Recovery
<1>6. RegistryAgreement'
  BY <1>1, <1>2, <1>4, SameEntryAgrees
<1>7. HandleCoherence'
  BY <1>1, <1>2, <1>4, <1>5, NextGenCoheres
<1>8. TypeOK' /\ ~Working'
  BY <1>1, <1>2, <1>4 DEF IndInv, TypeOK, Working
<1>9. /\ identities'[u.id] = next /\ next # None
      /\ next.did = identities[u.id].did /\ next.state = identities[u.id].state
      /\ next.root = identities[u.id].root
      /\ \A i \in Ids : i # u.id => identities'[i] = identities[i]
  BY SMTT(60), <1>1, <1>2, <1>4, NoneAssumption DEF IndInv, TypeOK, SameEntry
<1>10. OneDidPerId'
  <2>1. \A i \in Ids, d \in Dids : Names(i, d)' => Names(i, d)
    BY SMTT(60), <1>1, <1>8, <1>9 DEF Names, Registered
  <2>2. QED
    BY <2>1 DEF IndInv, OneDidPerId
<1>11. CreatingIsHidden'
  BY SMTT(60), <1>1, <1>9 DEF IndInv, CreatingIsHidden, Registered
<1>12. HeldIsListed'
  BY SMTT(60), <1>1, <1>9 DEF IndInv, HeldIsListed, Registered
<1>13. QED
  BY <1>6, <1>7, <1>8, <1>10, <1>11, <1>12, NobodyWorks

\* A durable write of a recovery, or its end.
LEMMA RecoveryStepPreserves ==
    ASSUME IndInv, RecoveryStep
    PROVE  IndInv'
<1> USE DEF IndInv
<1>1. ASSUME NEW j \in transactions, NEW k \in Kids, ReplayDropSecret(j, k) PROVE IndInv'
  <2>1. j.id \in Ids
    BY DEF TypeOK, CreationJournal
  <2>2. TypeOK'
    BY <1>1, <2>1 DEF ReplayDropSecret, TypeOK
  <2>3. QED
    BY <1>1, <2>2, SameLockPreserves DEF ReplayDropSecret
<1>2. ASSUME NEW u \in updates, NEW k \in Kids, ReplayDropPendingSecret(u, k) PROVE IndInv'
  <2>1. u.id \in Ids
    BY DEF TypeOK, UpdateJournal
  <2>2. TypeOK'
    BY <1>2, <2>1 DEF ReplayDropPendingSecret, TypeOK
  <2>3. QED
    BY <1>2, <2>2, SameLockPreserves DEF ReplayDropPendingSecret
<1>3. ASSUME NEW u \in updates, ReplayForgetUpdate(u) PROVE IndInv'
  <2>1. TypeOK'
    BY <1>3 DEF ReplayForgetUpdate, TypeOK
  <2>2. QED
    BY <1>3, <2>1, SameLockPreserves DEF ReplayForgetUpdate
<1>4. ASSUME RecoveryFails PROVE IndInv'
  BY <1>4, ReleasePreserves DEF RecoveryFails, TypeOK
<1>5. ASSUME RecoveryDone PROVE IndInv'
  <2>1. mode' \in [Procs -> Modes]
    BY <1>5 DEF RecoveryDone, TypeOK, Modes
  <2>2. QED
    BY <1>5, <2>1, ReleasePreserves DEF RecoveryDone, TypeOK
<1>6. QED
  BY SMTT(60), <1>1, <1>2, <1>3, <1>4, <1>5, ReplayRemoveIdentityPreserves, ReplayDeregisterPreserves,
     ReplaySyncPreserves, ReplayActivatePreserves, ReplayForgetPreserves,
     ReplayClearPendingPreserves
     DEF RecoveryStep
=============================================================================
