------------------------- MODULE IdentityTransition -------------------------
(***************************************************************************)
(* Cross-DID identity transitions (facade/identity_transition.rs): a       *)
(* journal file per operation in identity-transitions/, the sessions that  *)
(* drive it through publication, the attempts handed to the host and the   *)
(* remote registry that accepts a transition, late or never.               *)
(*                                                                         *)
(* Every handler that writes holds the exclusive store lock and makes one  *)
(* durable write, so it is one action and a crash falls between actions    *)
(* (Restart); resume lists the journals without the lock and is two.  A    *)
(* journal file is never removed and its candidate documents never change, *)
(* so an operation id stands for its candidate and the digests computed    *)
(* from it: two operations with the very same documents, whose digests the *)
(* code could not tell apart, are one operation here.  An identity is      *)
(* named by its DID.                                                       *)
(***************************************************************************)
EXTENDS Integers, FiniteSets

CONSTANTS
    Procs,          \* holders of a manager and a session
    Dids,           \* DIDs of the path-based identities in the store
    Ops,            \* operation ids
    Moves,          \* the <<predecessor, successor>> pairs hosts ask for
    None,           \* an absent file, session or observation
    OtherChanges,   \* whether handlers that ignore transitions change records
    RemoteChanges,  \* whether documents are published outside transitions
    MaxGeneration,  \* bound on a journal's generation (u64)
    MaxVersion      \* bound on record and registry generations and documents

JournalStates == {"Prepared", "InFlight", "Uncertain", "Committed", "Aborted"}
OpenStates == {"Prepared", "InFlight", "Uncertain"}

IdentityRecord == [gen : Nat, doc : Nat]

\* trusted: the predecessor's active document; succDoc: the successor's.
Journal ==
    [pred : Dids, predGen : Nat, trusted : Nat,
     succ : Dids, succGen : Nat, succDoc : Nat,
     state : JournalStates, gen : Nat]

\* A session's copy of its journal, and a publication attempt, are told apart
\* by the operation and the journal generation they were made at.
Stamp == [op : Ops, gen : Nat]

\* What the remote registry serves for a DID: an active document, or the
\* deactivated predecessor document of a transition.
RemoteDocument == [doc : Nat, moved : Ops \cup {None}]

\* A call of resume between its two steps; settled: the operations that were
\* Committed or Aborted already when it began.
ResumeCall == [did : Dids, settled : SUBSET Ops]

ASSUME ConstantsAssumption ==
    /\ Moves \subseteq Dids \X Dids
    /\ OtherChanges \in BOOLEAN
    /\ RemoteChanges \in BOOLEAN
    /\ MaxGeneration \in Nat \ {0}
    /\ MaxVersion \in Nat \ {0}

ASSUME NoneAssumption ==
    /\ None \notin IdentityRecord
    /\ None \notin Journal
    /\ None \notin Stamp
    /\ None \notin RemoteDocument
    /\ None \notin ResumeCall
    /\ None \notin Ops
    /\ None \notin Dids

VARIABLES
    registryGen,    \* registry.json's generation
    records,        \* identities/: per DID, or None once deleted
    journals,       \* identity-transitions/: per operation id
    view,           \* DidStore.registry_generation of each process
    resuming,       \* the call of resume that a process is in the middle of
    session,        \* IdentityTransitionSession of each process
    attempts,       \* IdentityTransitionPublicationAttempt values given out
    requests,       \* operations some host sent to the remote registry
    remote,         \* the remote registry's document per DID
    accepted,       \* operations the remote registry ever accepted
    observed        \* each process's last reading of each DID's remote document

store == <<registryGen, records, journals>>
manager == <<view, resuming>>
world == <<requests, remote, accepted>>
vars == <<registryGen, records, journals, view, resuming, session, attempts,
          requests, remote, accepted, observed>>

Init ==
    /\ registryGen = 1
    /\ records = [d \in Dids |-> [gen |-> 1, doc |-> 1]]
    /\ journals = [o \in Ops |-> None]
    /\ view = [p \in Procs |-> 1]
    /\ resuming = [p \in Procs |-> None]
    /\ session = [p \in Procs |-> None]
    /\ attempts = {}
    /\ requests = {}
    /\ remote = [d \in Dids |-> [doc |-> 1, moved |-> None]]
    /\ accepted = {}
    /\ observed = [p \in Procs |-> [d \in Dids |-> None]]

-----------------------------------------------------------------------------
(* Reading journals.                                                        *)

Open(o) == journals[o] # None /\ journals[o].state \in OpenStates

\* Mutant: resume overlooks a publication with an unknown result.
ResumableUndecided(d) ==
    {o \in Ops : Open(o) /\ journals[o].pred = d /\ journals[o].state # "Uncertain"}

\* resume's candidates.
Resumable(d) == {o \in Ops : Open(o) /\ journals[o].pred = d}

\* Mutant: only the transitions that can be resumed block another one.
BlockingOpenOnly(d) == {o \in Ops : Open(o) /\ journals[o].pred = d}

\* prepare's fork check: any journal of the predecessor that is not Aborted.
Blocking(d) ==
    {o \in Ops : journals[o] # None /\ journals[o].pred = d
                 /\ journals[o].state # "Aborted"}

StampOf(o, journal) == [op |-> o, gen |-> journal.gen]

\* Mutant: the successor's record may have changed.
PinnedPredecessorOnly(journal) ==
    /\ records[journal.pred] # None
    /\ records[journal.succ] # None
    /\ records[journal.pred].gen = journal.predGen

\* The pinned records of a journal are still the ones on disk.
Pinned(journal) ==
    /\ records[journal.pred] # None
    /\ records[journal.succ] # None
    /\ records[journal.pred].gen = journal.predGen
    /\ records[journal.succ].gen = journal.succGen

\* reload_and_validate: the session's generation and the pinned records.
ReloadAndValidate(p, o) ==
    /\ journals[o] # None
    /\ session[p] = StampOf(o, journals[o])
    /\ Pinned(journals[o])

-----------------------------------------------------------------------------
(* Preparing and resuming.                                                  *)

\* validate_request, beyond the syntax of its strings.
ValidRequest(pred, succ) == <<pred, succ>> \in Moves /\ pred # succ

\* journal_matches_request: the journal of a repeated request.
MatchesRequest(o, pred, succ) ==
    /\ journals[o] # None
    /\ journals[o].pred = pred
    /\ journals[o].succ = succ

\* prepare with an operation id that has a journal already: the same request
\* gets its session back, in whatever state the journal is.
ReplayPrepare(p, o, pred, succ) ==
    /\ resuming[p] = None
    /\ ValidRequest(pred, succ)
    /\ view[p] = registryGen
    /\ MatchesRequest(o, pred, succ)
    /\ session' = [session EXCEPT ![p] = StampOf(o, journals[o])]
    /\ UNCHANGED <<store, manager, attempts, world, observed>>

NewJournal(pred, succ) ==
    [pred |-> pred, predGen |-> records[pred].gen, trusted |-> records[pred].doc,
     succ |-> succ, succGen |-> records[succ].gen, succDoc |-> records[succ].doc,
     state |-> "Prepared", gen |-> 1]

\* prepare with a new operation id: refused beside another transition of the
\* predecessor, and pins both records as they are.
Prepare(p, o, pred, succ) ==
    /\ resuming[p] = None
    /\ ValidRequest(pred, succ)
    /\ view[p] = registryGen
    /\ journals[o] = None
    /\ Blocking(pred) = {}
    /\ records[pred] # None
    /\ records[succ] # None
    /\ journals' = [journals EXCEPT ![o] = NewJournal(pred, succ)]
    /\ session' = [session EXCEPT ![p] = [op |-> o, gen |-> 1]]
    /\ UNCHANGED <<registryGen, records, manager, attempts, world, observed>>

\* resume reloads the manager under the lock.
ResumeReload(p, pred) ==
    /\ resuming[p] = None
    /\ \E succ \in Dids : <<pred, succ>> \in Moves
    /\ resuming' = [resuming EXCEPT ![p] =
                       [did |-> pred,
                        settled |-> {o \in Ops : journals[o] # None /\ ~Open(o)}]]
    /\ view' = [view EXCEPT ![p] = registryGen]
    /\ UNCHANGED <<store, session, attempts, world, observed>>

Resuming(p, pred) == resuming[p] # None /\ resuming[p].did = pred

\* Then it lists the journals without the lock and returns the only open one,
\* as it was when its file was read, if any.
Resume(p, pred) ==
    /\ Resuming(p, pred)
    /\ resuming' = [resuming EXCEPT ![p] = None]
    /\ \/ \E o \in Resumable(pred) :
            /\ Resumable(pred) = {o}
            /\ session' = [session EXCEPT ![p] = StampOf(o, journals[o])]
       \/ /\ Resumable(pred) = {}
          /\ UNCHANGED session
    /\ UNCHANGED <<store, view, attempts, world, observed>>

\* The files are read one after the other: when two transitions of the DID were
\* open, one after the other, since the call began, the list may show both as
\* open, and the call fails (CorruptState), or neither.
ResumeRaced(p, pred) ==
    /\ Resuming(p, pred)
    /\ \E o, q \in Ops \ resuming[p].settled :
        /\ o # q
        /\ journals[o] # None /\ journals[q] # None
        /\ journals[o].pred = pred /\ journals[q].pred = pred
    /\ resuming' = [resuming EXCEPT ![p] = None]
    /\ UNCHANGED <<store, view, session, attempts, world, observed>>

-----------------------------------------------------------------------------
(* Publication.                                                             *)

\* The write of a session's handler: the journal in a new state, one
\* generation later; the session keeps the journal it wrote.
Advance(p, o, state) ==
    /\ journals[o].gen < MaxGeneration
    /\ journals' = [journals EXCEPT ![o].state = state, ![o].gen = @ + 1]
    /\ session' = [session EXCEPT ![p] = [op |-> o, gen |-> journals[o].gen + 1]]

\* begin_publication: idempotent while in flight.
BeginPublication(p, o) ==
    /\ ReloadAndValidate(p, o)
    /\ \/ /\ journals[o].state = "Prepared"
          /\ Advance(p, o, "InFlight")
          /\ attempts' = attempts \cup {[op |-> o, gen |-> journals[o].gen + 1]}
       \/ /\ journals[o].state = "InFlight"
          /\ attempts' = attempts \cup {StampOf(o, journals[o])}
          /\ UNCHANGED <<journals, session>>
    /\ UNCHANGED <<registryGen, records, manager, world, observed>>

\* complete's conditions on the attempt and the journal.
Completing(p, o, a) ==
    /\ ReloadAndValidate(p, o)
    /\ a = StampOf(o, journals[o])
    /\ journals[o].state = "InFlight"

\* Confirmed: the evidence is what the remote accepted (the host verified
\* it); it must name this journal's documents.
CompleteConfirmed(p, o, a, evidence) ==
    /\ Completing(p, o, a)
    /\ evidence \in accepted
    /\ evidence = o
    /\ Advance(p, o, "Committed")
    /\ UNCHANGED <<registryGen, records, manager, attempts, world, observed>>

\* RejectedBeforeAcceptance: the host vouches that the remote refused.
CompleteRejected(p, o, a) ==
    /\ Completing(p, o, a)
    /\ o \notin accepted
    /\ Advance(p, o, "Aborted")
    /\ UNCHANGED <<registryGen, records, manager, attempts, world, observed>>

CompleteUnknown(p, o, a) ==
    /\ Completing(p, o, a)
    /\ Advance(p, o, "Uncertain")
    /\ UNCHANGED <<registryGen, records, manager, attempts, world, observed>>

-----------------------------------------------------------------------------
(* Reconciliation against an earlier reading of the remote.                 *)

\* The observation shows the predecessor's trusted document, still active.
SeenOld(p, o) ==
    observed[p][journals[o].pred] = [doc |-> journals[o].trusted, moved |-> None]

\* Mutant: any transition of the predecessor counts as this one.
SeenPublishedAny(p, o) ==
    /\ observed[p][journals[o].pred] # None
    /\ observed[p][journals[o].pred].moved # None
    /\ observed[p][journals[o].succ] = [doc |-> journals[o].succDoc, moved |-> None]

\* The observation shows exactly this journal's two documents.
SeenPublished(p, o) ==
    /\ observed[p][journals[o].pred] # None
    /\ observed[p][journals[o].pred].moved = o
    /\ observed[p][journals[o].succ] = [doc |-> journals[o].succDoc, moved |-> None]

\* Mutant: reconciling goes back to the generation before the unknown answer.
ReconcileSameGeneration(p, o) ==
    /\ ReloadAndValidate(p, o)
    /\ journals[o].state = "Uncertain"
    /\ \/ /\ SeenOld(p, o)
          /\ journals' = [journals EXCEPT ![o].state = "Prepared", ![o].gen = @ - 1]
       \/ /\ SeenPublished(p, o)
          /\ journals' = [journals EXCEPT ![o].state = "Committed"]
    /\ session' = [session EXCEPT ![p] = StampOf(o, journals'[o])]
    /\ UNCHANGED <<registryGen, records, manager, attempts, world, observed>>

\* Mutant: an observation of the old document does not reopen the journal.
ReconcilePublishedOnly(p, o) ==
    /\ ReloadAndValidate(p, o)
    /\ journals[o].state = "Uncertain"
    /\ SeenPublished(p, o)
    /\ Advance(p, o, "Committed")
    /\ UNCHANGED <<registryGen, records, manager, attempts, world, observed>>

\* reconcile: only from Uncertain, by what the observation shows.
Reconcile(p, o) ==
    /\ ReloadAndValidate(p, o)
    /\ journals[o].state = "Uncertain"
    /\ \/ SeenOld(p, o) /\ Advance(p, o, "Prepared")
       \/ SeenPublished(p, o) /\ Advance(p, o, "Committed")
    /\ UNCHANGED <<registryGen, records, manager, attempts, world, observed>>

-----------------------------------------------------------------------------
(* The host and the remote registry (external).                             *)

\* A host sends the candidate of an attempt it holds, perhaps long after it
\* was given out.  A request in "requests" may be delivered late or never.
Send(a) ==
    /\ a \in attempts
    /\ requests' = requests \cup {a.op}
    /\ UNCHANGED <<store, manager, session, attempts, remote, accepted, observed>>

\* The remote accepts a transition of a DID that is still active under the
\* trusted document, to a successor that serves the candidate's document.
Accept(o) ==
    LET j == journals[o] IN
    /\ o \in requests
    /\ remote[j.pred] = [doc |-> j.trusted, moved |-> None]
    /\ remote[j.succ] = [doc |-> j.succDoc, moved |-> None]
    /\ remote' = [remote EXCEPT ![j.pred].moved = o]
    /\ accepted' = accepted \cup {o}
    /\ UNCHANGED <<store, manager, session, attempts, requests, observed>>

Observe(p, d) ==
    /\ observed' = [observed EXCEPT ![p][d] = remote[d]]
    /\ UNCHANGED <<store, manager, session, attempts, world>>

\* Another device of the owner, or a document change of this store, publishes.
PublishDocument(d) ==
    /\ RemoteChanges
    /\ remote[d].moved = None
    /\ remote[d].doc < MaxVersion
    /\ remote' = [remote EXCEPT ![d].doc = @ + 1]
    /\ UNCHANGED <<store, manager, session, attempts, requests, accepted, observed>>

-----------------------------------------------------------------------------
(* Other handlers of the store.                                             *)

\* Mutant: only the predecessor's side of a transition holds convergence back.
AdoptSiblingDocumentOfSuccessor(p, d) ==
    /\ records[d] # None
    /\ \A o \in Ops : Open(o) => journals[o].pred # d
    /\ observed[p][d] # None
    /\ observed[p][d].moved = None
    /\ observed[p][d].doc >= records[d].doc
    /\ records[d].gen < MaxVersion
    /\ records' = [records EXCEPT ![d] = [gen |-> @.gen + 1, doc |-> observed[p][d].doc]]
    /\ UNCHANGED <<registryGen, journals, manager, session, attempts, world, observed>>

\* adopt_verified_sibling_document: refused beside an open transition of the
\* identity, in either role; takes an active document the host read earlier,
\* a newer one or the same one under a later registry version, and leaves the
\* registry alone.
AdoptSiblingDocument(p, d) ==
    /\ records[d] # None
    /\ \A o \in Ops : Open(o) => d \notin {journals[o].pred, journals[o].succ}
    /\ observed[p][d] # None
    /\ observed[p][d].moved = None
    /\ observed[p][d].doc >= records[d].doc
    /\ records[d].gen < MaxVersion
    /\ records' = [records EXCEPT ![d] = [gen |-> @.gen + 1, doc |-> observed[p][d].doc]]
    /\ UNCHANGED <<registryGen, journals, manager, session, attempts, world, observed>>

\* Document updates (the registry is left alone) and state transitions such as
\* adopt_verified_document (the registry advances): neither looks at journals.
ChangeRecord(d, doc, registryToo) ==
    /\ OtherChanges
    /\ records[d] # None
    /\ records[d].gen < MaxVersion
    /\ doc \in {records[d].doc, remote[d].doc}
    /\ records' = [records EXCEPT ![d] = [gen |-> @.gen + 1, doc |-> doc]]
    /\ registryGen' = IF registryToo THEN registryGen + 1 ELSE registryGen
    /\ registryGen' <= MaxVersion
    /\ UNCHANGED <<journals, manager, session, attempts, world, observed>>

\* delete_identity_namespace: the transition journals stay.
DeleteIdentity(p, d) ==
    /\ OtherChanges
    /\ resuming[p] = None
    /\ view[p] = registryGen
    /\ records[d] # None
    /\ registryGen < MaxVersion
    /\ records' = [records EXCEPT ![d] = None]
    /\ registryGen' = registryGen + 1
    /\ view' = [view EXCEPT ![p] = registryGen']
    /\ UNCHANGED <<journals, resuming, session, attempts, world, observed>>

\* A process ends, between any two handlers, and opens the store again.
Restart(p) ==
    /\ view' = [view EXCEPT ![p] = registryGen]
    /\ resuming' = [resuming EXCEPT ![p] = None]
    /\ session' = [session EXCEPT ![p] = None]
    /\ observed' = [observed EXCEPT ![p] = [d \in Dids |-> None]]
    /\ UNCHANGED <<store, attempts, world>>

-----------------------------------------------------------------------------
Next ==
    \/ \E p \in Procs, o \in Ops, pred, succ \in Dids :
        Prepare(p, o, pred, succ) \/ ReplayPrepare(p, o, pred, succ)
    \/ \E p \in Procs, d \in Dids :
        \/ ResumeReload(p, d)
        \/ Resume(p, d)
        \/ ResumeRaced(p, d)
        \/ Observe(p, d)
        \/ AdoptSiblingDocument(p, d)
        \/ DeleteIdentity(p, d)
    \/ \E p \in Procs, o \in Ops : BeginPublication(p, o) \/ Reconcile(p, o)
    \/ \E p \in Procs, o \in Ops, a \in attempts :
        \/ \E evidence \in Ops : CompleteConfirmed(p, o, a, evidence)
        \/ CompleteRejected(p, o, a)
        \/ CompleteUnknown(p, o, a)
    \/ \E a \in attempts : Send(a)
    \/ \E o \in Ops : Accept(o)
    \/ \E p \in Procs : Restart(p)
    \/ \E d \in Dids : PublishDocument(d)
    \/ \E d \in Dids, doc \in 1 .. MaxVersion, registryToo \in BOOLEAN :
        ChangeRecord(d, doc, registryToo)

Spec == Init /\ [][Next]_vars

\* A host goes on with an uncertain publication: among the calls it keeps making
\* it calls resume for that DID, and reconcile with the session it got, too;
\* every call returns, and it reads the remote again and again.  Nobody is
\* obliged to publish, to answer or to stay up.
ResumeUncertain(p, d) ==
    /\ \E o \in Resumable(d) :
        journals[o].state = "Uncertain" /\ session[p] # StampOf(o, journals[o])
    /\ ResumeReload(p, d)

ObserveChange(p, d) == observed[p][d] # remote[d] /\ Observe(p, d)

GoesOn(p) ==
    /\ \A d \in Dids :
        /\ SF_vars(ResumeUncertain(p, d))
        /\ WF_vars(Resume(p, d))
        /\ WF_vars(ObserveChange(p, d))
    /\ \A o \in Ops : SF_vars(Reconcile(p, o))

FairSpec == Spec /\ \A p \in Procs : GoesOn(p)

-----------------------------------------------------------------------------
(* Properties.                                                              *)

TypeOK ==
    /\ registryGen \in Nat
    /\ records \in [Dids -> IdentityRecord \cup {None}]
    /\ journals \in [Ops -> Journal \cup {None}]
    /\ view \in [Procs -> Nat]
    /\ resuming \in [Procs -> ResumeCall \cup {None}]
    /\ session \in [Procs -> Stamp \cup {None}]
    /\ attempts \in SUBSET Stamp
    /\ requests \in SUBSET Ops
    /\ remote \in [Dids -> RemoteDocument]
    /\ accepted \in SUBSET Ops
    /\ observed \in [Procs -> [Dids -> RemoteDocument \cup {None}]]

\* A predecessor has at most one transition that was not aborted: there are
\* never two open journals to resume (CorruptState), and a committed transition
\* is the last one of its DID, whichever processes prepared, lost and resumed.
NoForks ==
    \A o, q \in Ops :
        /\ journals[o] # None /\ journals[q] # None
        /\ journals[o].pred = journals[q].pred
        /\ journals[o].state # "Aborted" /\ journals[q].state # "Aborted"
        => o = q

\* A journal is Committed only if the remote registry accepted exactly its
\* documents, however late the evidence or the observation is used, and the
\* predecessor's DID has been moved by this operation since.
CommittedWasPublished ==
    \A o \in Ops :
        journals[o] # None /\ journals[o].state = "Committed"
        => o \in accepted /\ remote[journals[o].pred].moved = o

\* An attempt can decide a journal only while the publication it was given out
\* for is in flight: no attempt of a publication that was answered, given up
\* as uncertain or reconciled carries the journal's generation again.
AttemptsFenced ==
    \A a \in attempts :
        /\ journals[a.op] # None
        /\ a.gen <= journals[a.op].gen
        /\ a.gen = journals[a.op].gen => journals[a.op].state = "InFlight"

\* Convergence with other devices never disturbs an open transition: both of
\* its identities keep the generations it pinned, so that its sessions are
\* never locked out (adoption.rs's check against a racing preparation).
OpenTransitionsPinned ==
    \A o \in Ops : Open(o) => Pinned(journals[o])

\* The records of a journal's identities hold the documents its candidate was
\* made from.
MadeFrom(journal) ==
    /\ records[journal.pred] # None /\ records[journal.pred].doc = journal.trusted
    /\ records[journal.succ] # None /\ records[journal.succ].doc = journal.succDoc

\* reload_and_validate compares record generations only.  That is enough: when
\* a session writes its journal, to publish, commit, abort or reopen it, the
\* store still holds the two documents that the candidate was made from,
\* whichever updates, adoptions, convergences or deletions ran in between.
CandidateIsCurrent ==
    [][\A o \in Ops : journals[o] # None /\ journals'[o] # journals[o]
                        => MadeFrom(journals[o])]_vars

IsUncertain(o) == journals[o] # None /\ journals[o].state = "Uncertain"

\* The remote serves what reconcile accepts: the trusted document, still
\* active, or the two documents of this transition.
RemoteDecides(journal, o) ==
    \/ remote[journal.pred] = [doc |-> journal.trusted, moved |-> None]
    \/ /\ remote[journal.pred].moved = o
       /\ remote[journal.succ] = [doc |-> journal.succDoc, moved |-> None]

\* An uncertain transition that is out of reconcile's reach for good: a pinned
\* record moved, so that every call of a session gets Conflict, or the remote
\* has gone on to other documents of the two DIDs, by a publication outside
\* transitions or by an earlier, aborted transition that was accepted late.
OutOfReach(o) == ~Pinned(journals[o]) \/ ~RemoteDecides(journals[o], o)

RestartStep == \E p \in Procs : Restart(p)

\* A publication with an unknown result does not stay uncertain: once
\* processes stay up, resuming and reading the remote decides it, unless it is
\* out of reconcile's reach, which nothing but the two causes above brings about.
UncertainIsReconciled ==
    <>[][~RestartStep]_vars =>
        \A o \in Ops :
            IsUncertain(o) ~> (IsUncertain(o) => OutOfReach(o))

=============================================================================
