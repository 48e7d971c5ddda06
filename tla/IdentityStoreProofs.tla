------------------------ MODULE IdentityStoreProofs -------------------------
(***************************************************************************)
(* The invariant of IdentityStore holds in every reachable state, and the  *)
(* safety properties that follow from it.                                  *)
(***************************************************************************)
EXTENDS IdentityStoreReplays

USE Zenon

-----------------------------------------------------------------------------
(* Handles and crashes.                                                     *)

\* Giving up handles, and perhaps the lock, keeps the invariant.
LEMMA LessHeldPreserves ==
    ASSUME IndInv, TypeOK', UNCHANGED <<registry, identities, transactions>>,
           op' = op \/ op' = None,
           \A q \in Procs, i \in Ids : held'[q][i] \in {held[q][i], None}
    PROVE  IndInv'
<1>1. CreatingIsHidden'
  BY SMTT(60) DEF IndInv, CreatingIsHidden, Registered
<1>2. HeldIsListed'
  BY SMTT(60) DEF IndInv, HeldIsListed, Registered
<1>3. HandleCoherence'
  BY DEF IndInv, HandleCoherence
<1>4. RegistryAgreement'
  BY SMTT(60) DEF IndInv, RegistryAgreement, UnlistedRecordIsJournaled, MissingRecordIsJournaled,
         StaleSummaryIsJournaled, Registered, Journaled
<1>5. Working' => Working /\ op' = op
  BY DEF Working
<1>6. OneDidPerId'
  <2>1. \A i \in Ids, d \in Dids : Names(i, d)' => Names(i, d)
    BY <1>5 DEF Names, Registered
  <2>2. QED
    BY <2>1 DEF IndInv, OneDidPerId
<1>7. CASE ~Working'
  BY <1>1, <1>2, <1>3, <1>4, <1>6, <1>7, NobodyWorks
<1>8. CASE Working'
  <2>1. Working /\ op' = op
    BY <1>5, <1>8
  <2>2. HandlerShape'
    BY <2>1 DEF IndInv, HandlerShape
  <2>3. JournalKept'
    BY <2>1 DEF IndInv, JournalKept, OpJournal
  <2>4. ProvisionStages'
    <3>1. op.id \in Ids
      BY <2>1 DEF IndInv, HandlerShape, Work
    <3>2. QED
      BY <2>1, <3>1 DEF IndInv, ProvisionStages
  <2>5. DeleteStages' /\ IdentityStages'
    BY <2>1 DEF IndInv, DeleteStages, IdentityStages, Registered
  <2>6. UnjournalStage'
    BY <2>1 DEF IndInv, UnjournalStage
  <2>7. QED
    BY <1>1, <1>2, <1>3, <1>4, <1>6, <2>2, <2>3, <2>4, <2>5, <2>6 DEF IndInv
<1>9. QED
  BY <1>7, <1>8

\* Opening a listed identity, whoever holds the lock, keeps the invariant.
LEMMA OpenPreserves ==
    ASSUME IndInv, NEW p \in Procs, NEW id \in Ids, NEW did \in Dids, Openable(id, did),
           held' = [held EXCEPT ![p][id] = identities[id]], mode' \in [Procs -> Modes],
           UNCHANGED <<registry, identities, secrets, transactions, updates, op, view>>
    PROVE  IndInv'
<1>1. /\ Registered(id, did) /\ identities[id] # None /\ identities[id].did = did
      /\ identities[id].state # "Creating"
  BY DEF Openable, Readable
<1>2. identities[id] \in IdentityRecord
  BY <1>1 DEF IndInv, TypeOK
<1>3. TypeOK'
  BY <1>2 DEF IndInv, TypeOK
<1>4. \A q \in Procs, i \in Ids : \/ held'[q][i] = held[q][i]
                                  \/ i = id /\ held'[q][i] = identities[id]
  BY DEF IndInv, TypeOK
<1>5. CreatingIsHidden'
  BY SMTT(60), <1>1, <1>4 DEF IndInv, CreatingIsHidden, Registered
<1>6. HeldIsListed'
  BY SMTT(60), <1>1, <1>4 DEF IndInv, HeldIsListed, Registered
<1>7. HandleCoherence'
  BY SMTT(60), <1>2, <1>4 DEF IndInv, HandleCoherence, IdentityRecord
<1>8. RegistryAgreement'
  BY SMTT(60) DEF IndInv, RegistryAgreement, UnlistedRecordIsJournaled, MissingRecordIsJournaled,
         StaleSummaryIsJournaled, Registered, Journaled
<1>9. Working' <=> Working
  BY DEF Working
<1>10. OneDidPerId'
  <2>1. \A i \in Ids, d \in Dids : Names(i, d)' => Names(i, d)
    BY <1>9 DEF Names, Registered
  <2>2. QED
    BY <2>1 DEF IndInv, OneDidPerId
<1>11. HandlerShape'
  BY <1>9 DEF IndInv, HandlerShape
<1>12. JournalKept'
  BY <1>9 DEF IndInv, JournalKept, OpJournal
<1>13. ProvisionStages'
  <2>1. CASE Working /\ op.id = id
    <3>1. op.did \in Dids
      BY <2>1 DEF IndInv, HandlerShape, Work
    <3>2. op.did = did
      BY <1>1, <2>1, <3>1 DEF IndInv, OneDidPerId, Names
    <3>3. registry.ids[op.did] # None
      BY <1>1, <3>2 DEF Registered
    <3>4. QED
      BY <1>9, <3>3 DEF IndInv, ProvisionStages
  <2>2. CASE Working /\ op.id # id
    <3>1. op.id \in Ids
      BY <2>2 DEF IndInv, HandlerShape, Work
    <3>2. \A q \in Procs : held'[q][op.id] = held[q][op.id]
      BY <1>4, <2>2, <3>1
    <3>3. QED
      BY <1>9, <3>2 DEF IndInv, ProvisionStages
  <2>3. QED
    BY <1>9, <2>1, <2>2 DEF ProvisionStages
<1>14. DeleteStages' /\ IdentityStages'
  BY <1>9 DEF IndInv, DeleteStages, IdentityStages, Registered
<1>15. UnjournalStage'
  BY <1>9 DEF IndInv, UnjournalStage
<1>16. QED
  BY SMTT(60), <1>3, <1>5, <1>6, <1>7, <1>8, <1>10, <1>11, <1>12, <1>13, <1>14, <1>15 DEF IndInv

\* A step of a process that neither runs a handler nor writes to the disk.
LEMMA ProcessStepPreserves ==
    ASSUME IndInv, NEW p \in Procs, ProcessStep(p)
    PROVE  IndInv'
<1> USE DEF IndInv
<1>1. ASSUME NEW kind \in RecoveryKinds, StartRecovery(p, kind) PROVE IndInv'
  <2>1. op = None /\ op' = [p |-> p, kind |-> kind, stage |-> "recover"]
        /\ UNCHANGED <<registry, identities, secrets, transactions, updates, mode, view, held>>
    BY <1>1 DEF StartRecovery
  <2>2. op' \in Recovery /\ op'.stage = "recover"
    BY <2>1 DEF Recovery
  <2>3. TypeOK' /\ ~Working'
    BY <2>1, <2>2 DEF TypeOK, Working
  <2>4. OneDidPerId'
    <3>1. \A i \in Ids, d \in Dids : Names(i, d)' => Names(i, d)
      BY <2>1, <2>3 DEF Names, Registered
    <3>2. QED
      BY <3>1 DEF OneDidPerId
  <2>5. RegistryAgreement' /\ CreatingIsHidden' /\ HeldIsListed' /\ HandleCoherence'
    BY <2>1, SameDisk
  <2>6. QED
    BY <2>3, <2>4, <2>5, NobodyWorks
<1>2. ASSUME ReadRegistry(p) PROVE IndInv'
  <2>1. TypeOK'
    BY <1>2 DEF ReadRegistry, TypeOK, Modes
  <2>2. QED
    BY <1>2, <2>1, SameLockPreserves DEF ReadRegistry
<1>3. ASSUME NEW id \in Ids, ReloadIdentity(p, id) PROVE IndInv'
  <2>1. /\ held[p][id] # None /\ mode' = [mode EXCEPT ![p] = "up"]
        /\ UNCHANGED <<registry, identities, secrets, transactions, updates, op, view>>
    BY <1>3 DEF ReloadIdentity
  <2>2. mode' \in [Procs -> Modes]
    BY <2>1 DEF TypeOK, Modes
  <2>3. held[p][id].did \in Dids
    BY SMTT(60), <2>1 DEF TypeOK, IdentityRecord
  <2>4. CASE Openable(id, held[p][id].did)
    BY <1>3, <2>1, <2>2, <2>3, <2>4, OpenPreserves DEF ReloadIdentity
  <2>5. CASE ~Openable(id, held[p][id].did)
    <3>1. held' = held
      BY <1>3, <2>5 DEF ReloadIdentity
    <3>2. TypeOK'
      BY <2>1, <2>2, <3>1 DEF TypeOK
    <3>3. QED
      BY <2>1, <3>1, <3>2, SameLockPreserves
  <2>6. QED
    BY <2>4, <2>5
<1>4. ASSUME NEW id \in Ids, NEW did \in Dids, OpenIdentity(p, id, did) PROVE IndInv'
  BY <1>4, OpenPreserves DEF OpenIdentity, TypeOK
<1>5. ASSUME NEW id \in Ids, NEW did \in Dids, OpenForDelete(p, id, did) PROVE IndInv'
  <2>1. TypeOK'
    BY <1>5 DEF OpenForDelete, TypeOK, Modes
  <2>2. QED
    BY <1>5, <2>1, SameLockPreserves DEF OpenForDelete
<1>6. ASSUME NEW did \in Dids, DeleteAlreadyDone(p, did) PROVE IndInv'
  <2>1. TypeOK'
    BY <1>6 DEF DeleteAlreadyDone, TypeOK, Modes
  <2>2. QED
    BY <1>6, <2>1, SameLockPreserves DEF DeleteAlreadyDone
<1>7. ASSUME NEW did \in Dids, DeleteRefused(p, did) PROVE IndInv'
  <2>1. TypeOK'
    BY <1>7 DEF DeleteRefused, TypeOK, Modes
  <2>2. QED
    BY <1>7, <2>1, SameLockPreserves DEF DeleteRefused
<1>8. QED
  BY SMTT(60), <1>1, <1>2, <1>3, <1>4, <1>5, <1>6, <1>7 DEF ProcessStep

\* A crash keeps the disk; the handles and the lock of the process are gone.
LEMMA CrashPreserves ==
    ASSUME IndInv, NEW p \in Procs, Crash(p)
    PROVE  IndInv'
<1>1. /\ op' = op \/ op' = None
      /\ mode' = [mode EXCEPT ![p] = "down"] /\ view' = [view EXCEPT ![p] = 0]
      /\ held' = [held EXCEPT ![p] = [i \in Ids |-> None]]
      /\ UNCHANGED <<registry, identities, secrets, transactions, updates>>
  BY DEF Crash
<1>2. \A q \in Procs, i \in Ids : held'[q][i] \in {held[q][i], None}
  BY <1>1 DEF IndInv, TypeOK
<1>3. held' \in [Procs -> [Ids -> IdentityRecord \cup {None}]]
  BY <1>1 DEF IndInv, TypeOK
<1>4. TypeOK'
  BY <1>1, <1>3 DEF IndInv, TypeOK, Modes
<1>5. QED
  BY <1>1, <1>2, <1>4, LessHeldPreserves

-----------------------------------------------------------------------------
(* The invariant and what follows from it.                                  *)

\* A new store satisfies the invariant.
LEMMA InitEstablishes ==
    ASSUME Init
    PROVE  IndInv
<1>1. TypeOK
  BY DEF Init, TypeOK, Modes, IdentitySummary
<1>2. \A i \in Ids, d \in Dids : ~Names(i, d)
  BY DEF Init, Names, Registered, Working
<1>3. OneDidPerId
  BY <1>2 DEF OneDidPerId
<1>4. CreatingIsHidden /\ HeldIsListed /\ HandleCoherence
  BY DEF Init, CreatingIsHidden, HeldIsListed, HandleCoherence
<1>5. RegistryAgreement
  BY DEF Init, RegistryAgreement, UnlistedRecordIsJournaled, MissingRecordIsJournaled,
         StaleSummaryIsJournaled, Registered
<1>6. HandlerShape /\ JournalKept /\ ProvisionStages /\ DeleteStages /\ IdentityStages
      /\ UnjournalStage
  BY DEF Init, Working, HandlerShape, JournalKept, ProvisionStages, DeleteStages,
         IdentityStages, UnjournalStage
<1>7. QED
  BY <1>1, <1>3, <1>4, <1>5, <1>6 DEF IndInv

\* Every step, of a handler, a recovery, a process or the environment, preserves
\* the invariant.
LEMMA NextPreserves ==
    ASSUME IndInv, [Next]_vars
    PROVE  IndInv'
<1>1. ASSUME NEW p \in Procs, StoreHandler(p) PROVE IndInv'
  BY <1>1, StoreHandlerStarts, StartedPreserves
<1>2. ASSUME NEW p \in Procs, UpdateHandler(p) PROVE IndInv'
  BY <1>2, UpdateHandlerStarts, StartedPreserves, PersistedPreserves
<1>3. ASSUME NEW p \in Procs, TransitionHandler(p) PROVE IndInv'
  BY <1>3, TransitionHandlerStarts, StartedPreserves, PersistedPreserves
<1>4. ASSUME IoError PROVE IndInv'
  BY <1>4, ReleasePreserves DEF IoError, IndInv, TypeOK
<1>5. ASSUME UNCHANGED vars PROVE IndInv'
  BY <1>5, SameLockPreserves DEF vars, IndInv, TypeOK
<1>6. QED
  BY SMTT(60), <1>1, <1>2, <1>3, <1>4, <1>5, ProcessStepPreserves, CrashPreserves,
     HandlerStepPreserves, RecoveryStepPreserves
     DEF Next

\* The inductive invariant holds in every reachable state.
THEOREM InvariantHolds == Spec => []IndInv
<1>1. Init => IndInv
  BY InitEstablishes
<1>2. IndInv /\ [Next]_vars => IndInv'
  BY NextPreserves
<1>3. QED
  BY <1>1, <1>2, PTL DEF Spec

\* Type correctness: registry.json, the records, the secrets, the journals, the
\* lock and the handles keep their shape whatever is interrupted.
THEOREM TypeCorrect == Spec => []TypeOK
<1>1. IndInv => TypeOK
  BY DEF IndInv
<1>2. QED
  BY <1>1, InvariantHolds, PTL

\* Registry and records agree or a transaction journal says how recovery makes
\* them agree, whatever process crashes or fails between the writes of a handler
\* and whoever writes the store next.
THEOREM RegistryAgrees == Spec => []RegistryAgreement
<1>1. IndInv => RegistryAgreement
  BY DEF IndInv
<1>2. QED
  BY <1>1, InvariantHolds, PTL

\* A cached DidIdentity record whose generation is the one on disk is the record
\* on disk: the generation check of the mutations excludes lost updates.
THEOREM HandlesCohere == Spec => []HandleCoherence
<1>1. IndInv => HandleCoherence
  BY DEF IndInv
<1>2. QED
  BY <1>1, InvariantHolds, PTL

-----------------------------------------------------------------------------
(* What a step may do to a record.                                          *)

\* A step that replaces one record by a successor generation, or activates it.
LEMMA ReplaceRecord ==
    ASSUME IndInv, NEW i \in Ids, NEW record, record # None,
           identities' = [identities EXCEPT ![i] = record],
           \/ identities[i] = None
           \/ record.gen = identities[i].gen + 1
           \/ identities[i].state = "Creating" /\ record.gen = identities[i].gen
    PROVE  RemovedUnderDeletion /\ ReplacedBySuccessor
<1>1. /\ identities'[i] = record
      /\ \A id \in Ids : id # i => identities'[id] = identities[id]
  BY DEF IndInv, TypeOK
<1>2. QED
  BY <1>1 DEF RemovedUnderDeletion, ReplacedBySuccessor

\* A step that removes one record, under a deletion's journal or unlisted.
LEMMA RemoveRecord ==
    ASSUME IndInv, NEW i \in Ids, identities' = [identities EXCEPT ![i] = None],
           \/ Journaled(i, "NamespaceDelete")
           \/ identities[i] # None => ~Registered(i, identities[i].did)
    PROVE  RemovedUnderDeletion /\ ReplacedBySuccessor
<1>1. /\ identities'[i] = None
      /\ \A id \in Ids : id # i => identities'[id] = identities[id]
  BY DEF IndInv, TypeOK
<1>2. QED
  BY <1>1 DEF RemovedUnderDeletion, ReplacedBySuccessor

\* No step removes a listed record without a deletion's journal, or rewrites a
\* record an open handle knows without a new generation.
LEMMA RecordSteps ==
    ASSUME IndInv, [Next]_vars
    PROVE  RemovedUnderDeletion /\ ReplacedBySuccessor
<1> DEFINE Fine == RemovedUnderDeletion /\ ReplacedBySuccessor
<1>1. ASSUME identities' = identities PROVE Fine
  BY <1>1 DEF RemovedUnderDeletion, ReplacedBySuccessor
<1>2. ASSUME Persisted PROVE Fine
  <2>1. PICK p \in Procs, i \in Ids, record \in IdentityRecord :
            /\ record.gen = identities[i].gen + 1
            /\ identities' = [identities EXCEPT ![i] = record]
    BY ZenonT(60), <1>2 DEF Persisted
  <2>2. QED
    BY <2>1, NoneAssumption, ReplaceRecord
<1>3. ASSUME Started PROVE Fine
  BY <1>1, <1>3 DEF Started
<1>4. ASSUME WriteRecord PROVE Fine
  <2>1. /\ Working /\ op.stage = "record" /\ op.kind \in WorkKinds
        /\ op.id \in Ids /\ op.did \in Dids
        /\ identities' = [identities EXCEPT ![op.id] = op.record]
        /\ IF op.kind = "NamespaceDelete" THEN op.record = None
           ELSE op.record \in IdentityRecord /\ op.record # None /\ op.record.did = op.did
    BY <1>4, RecordStage
  <2>2. CASE op.kind \in {"Create", "Provision"}
    <3>1. identities[op.id] = None
      BY <2>1, <2>2 DEF IndInv, ProvisionStages
    <3>2. QED
      BY <2>1, <2>2, <3>1, ReplaceRecord
  <2>3. CASE op.kind \in IdentityKinds
    <3>1. op.record.gen = identities[op.id].gen + 1
      BY <2>1, <2>3 DEF IndInv, IdentityStages
    <3>2. QED
      BY <2>1, <2>3, <3>1, ReplaceRecord DEF IdentityKinds, UpdateKinds
  <2>4. CASE op.kind = "NamespaceDelete"
    <3>1. OpJournal \in transactions
      BY <2>1, <2>4 DEF IndInv, JournalKept, UpdateKinds
    <3>2. Journaled(op.id, "NamespaceDelete")
      BY <2>4, <3>1 DEF Journaled, OpJournal, JournalKind
    <3>3. QED
      BY <2>1, <2>4, <3>2, RemoveRecord
  <2>5. QED
    BY <2>1, <2>2, <2>3, <2>4 DEF WorkKinds, StoreKinds
<1>5. ASSUME ActivateRecord PROVE Fine
  <2> DEFINE active == [op.record EXCEPT !.state = "Active"]
  <2>1. /\ Working /\ op.stage = "activate" /\ Advance
        /\ identities' = [identities EXCEPT ![op.id] = active]
    BY <1>5 DEF ActivateRecord, At, Working
  <2>2. op \in Work /\ op.stage \in DOMAIN Order[op.kind]
    BY <2>1, Advances
  <2>3. op.kind \in WorkKinds /\ op.id \in Ids
    BY <2>2 DEF Work
  <2>4. op.kind = "Create"
    BY SMTT(60), <2>1, <2>2, <2>3, OrderTable DEF WorkKinds, StoreKinds, IdentityKinds, UpdateKinds
  <2>5. op.record.state = "Creating" /\ identities[op.id] = op.record
    BY <2>1, <2>4 DEF IndInv, ProvisionStages
  <2>6. op.record \in IdentityRecord
    BY <2>1, <2>4 DEF IndInv, HandlerShape
  <2>7. active # None /\ active.gen = op.record.gen
    BY SMTT(60), <2>6, NoneAssumption DEF IdentityRecord, IdentityStates
  <2> HIDE DEF active
  <2>8. QED
    BY <2>1, <2>3, <2>5, <2>7, ReplaceRecord
<1>6. ASSUME NEW j \in transactions, ReplayRemoveIdentity(j) PROVE Fine
  <2>1. /\ Replays(j) /\ identities' = [identities EXCEPT ![j.id] = None]
        /\ \/ j.kind = "NamespaceDelete"
           \/ j.kind = "Create" /\ ~Registered(j.id, j.did)
    BY <1>6 DEF ReplayRemoveIdentity, Undoes
  <2>2. j.id \in Ids /\ (identities[j.id] # None => identities[j.id].did = j.did)
    BY <2>1, ReplayedJournal
  <2>3. j.kind = "NamespaceDelete" => Journaled(j.id, "NamespaceDelete")
    BY DEF Journaled
  <2>4. QED
    BY <2>1, <2>2, <2>3, RemoveRecord
<1>7. ASSUME NEW j \in transactions, ReplayActivate(j) PROVE Fine
  <2> DEFINE active == [identities[j.id] EXCEPT !.state = "Active"]
  <2>1. /\ Replays(j) /\ identities[j.id] # None /\ identities[j.id].state = "Creating"
        /\ identities' = [identities EXCEPT ![j.id] = active]
    BY <1>7 DEF ReplayActivate, Readable
  <2>2. j.id \in Ids /\ identities[j.id] \in IdentityRecord
    BY <2>1, ReplayedJournal
  <2>3. active # None /\ active.gen = identities[j.id].gen
    BY SMTT(60), <2>2, NoneAssumption DEF IdentityRecord, IdentityStates
  <2> HIDE DEF active
  <2>4. QED
    BY <2>1, <2>2, <2>3, ReplaceRecord
<1>8. ASSUME NEW u \in updates, ReplayClearPending(u) PROVE Fine
  <2> DEFINE cleared == [identities[u.id] EXCEPT !.pending = None]
             next == NextGen(cleared)
  <2>1. identities[u.id] # None /\ identities' = [identities EXCEPT ![u.id] = next]
    BY <1>8 DEF ReplayClearPending
  <2>2. u.id \in Ids /\ identities[u.id] \in IdentityRecord
    BY <2>1 DEF IndInv, TypeOK, UpdateJournal
  <2>3. cleared \in IdentityRecord /\ cleared.gen = identities[u.id].gen
    BY <2>2 DEF IdentityRecord
  <2> HIDE DEF cleared
  <2>4. next # None /\ next.gen = identities[u.id].gen + 1
    BY <2>3, NextGenType, NoneAssumption
  <2> HIDE DEF next
  <2>5. QED
    BY <2>1, <2>2, <2>4, ReplaceRecord
<1>9. ASSUME HandlerStep PROVE Fine
  BY <1>1, <1>4, <1>5, <1>9
     DEF HandlerStep, WriteJournal, WriteUpdateJournal, SealSecret, DropSecret, SealVerified,
         SealMismatch, SecretsDropped, WriteRegistry, Finish
<1>10. ASSUME RecoveryStep PROVE Fine
  BY <1>1, <1>6, <1>7, <1>8, <1>10
     DEF RecoveryStep, ReplayDropSecret, ReplayDeregister, ReplaySync, ReplayForget,
         ReplayDropPendingSecret, ReplayForgetUpdate, RecoveryFails, RecoveryDone
<1>11. ASSUME NEW p \in Procs, ProcessStep(p) \/ Crash(p) PROVE Fine
  BY <1>1, <1>11
     DEF ProcessStep, StartRecovery, ReadRegistry, ReloadIdentity, OpenIdentity,
         OpenForDelete, DeleteAlreadyDone, DeleteRefused, Crash
<1>12. ASSUME NEW p \in Procs, StoreHandler(p) \/ UpdateHandler(p) \/ TransitionHandler(p)
       PROVE  Fine
  BY <1>2, <1>3, <1>12, StoreHandlerStarts, UpdateHandlerStarts, TransitionHandlerStarts
<1>13. ASSUME IoError \/ UNCHANGED vars PROVE Fine
  BY <1>1, <1>13 DEF IoError, vars
<1>14. QED
  BY <1>9, <1>10, <1>11, <1>12, <1>13 DEF Next

\* A record the registry lists disappears only under a NamespaceDelete journal;
\* no replay of a Create journal takes a listed identity away.
THEOREM ListedRecordsStay == Spec => OnlyDeletionRemoves
<1>1. IndInv /\ [Next]_vars => [RemovedUnderDeletion]_vars
  BY RecordSteps
<1>2. QED
  BY <1>1, InvariantHolds, PTL DEF Spec, OnlyDeletionRemoves

\* A record is only ever replaced by its successor generation, except that a
\* record in state Creating is activated in place.
THEOREM GenerationsAdvance == Spec => RecordGenerationAdvances
<1>1. IndInv /\ [Next]_vars => [ReplacedBySuccessor]_vars
  BY RecordSteps
<1>2. QED
  BY <1>1, InvariantHolds, PTL DEF Spec, RecordGenerationAdvances
=============================================================================
