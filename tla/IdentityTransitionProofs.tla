---------------------- MODULE IdentityTransitionProofs ----------------------
(***************************************************************************)
(* Identity transitions for any number of processes, DIDs and operations:  *)
(* no forks, fenced attempts, commits only of published transitions, and   *)
(* sessions that only work on the documents their candidate was made from. *)
(***************************************************************************)
EXTENDS IdentityTransition, TLAPS

\* Requests and acceptances belong to journals; a DID is moved by exactly one
\* accepted operation, and a reading of the remote only shows accepted ones.
RemoteHistory ==
    /\ \A o \in requests : journals[o] # None
    /\ \A o \in accepted : journals[o] # None /\ remote[journals[o].pred].moved = o
    /\ \A d \in Dids : remote[d].moved # None => remote[d].moved \in accepted
    /\ \A p \in Procs, d \in Dids :
        observed[p][d] # None /\ observed[p][d].moved # None
        => observed[p][d].moved \in accepted

CommitsAccepted ==
    \A o \in Ops :
        journals[o] # None /\ journals[o].state = "Committed" => o \in accepted

IndInv ==
    /\ TypeOK
    /\ NoForks
    /\ AttemptsFenced
    /\ RemoteHistory
    /\ CommitsAccepted

\* The journal file of one operation moves to a new state and generation, the
\* only way the handlers of a session change a journal.
LEMMA AdvanceTypes ==
    ASSUME TypeOK, NEW p \in Procs, NEW o \in Ops, NEW s \in JournalStates,
           journals[o] # None, Advance(p, o, s)
    PROVE  /\ journals' \in [Ops -> Journal \cup {None}]
           /\ session' \in [Procs -> Stamp \cup {None}]
           /\ journals'[o] # None
           /\ journals'[o].pred = journals[o].pred
           /\ journals'[o].state = s
           /\ journals'[o].gen = journals[o].gen + 1
           /\ \A q \in Ops : q # o => journals'[q] = journals[q]
<1>1. journals[o] \in Journal
    BY DEF TypeOK
<1>2. journals'[o] = [journals[o] EXCEPT !.state = s, !.gen = journals[o].gen + 1]
    BY <1>1, SMTT(30) DEF Advance, TypeOK, Journal
<1>3. journals'[o] \in Journal
  <2> DEFINE j == journals[o]
  <2>1. j.gen + 1 \in Nat
    BY <1>1 DEF Journal
  <2>2. \A k \in Journal, g \in Nat : [k EXCEPT !.state = s, !.gen = g] \in Journal
    BY DEF Journal
  <2> QED
    BY <1>1, <1>2, <2>1, <2>2
<1>4. \A q \in Ops : q # o => journals'[q] = journals[q]
    BY DEF Advance, TypeOK
<1>5. journals' \in [Ops -> Journal \cup {None}]
    BY <1>3 DEF Advance, TypeOK
<1>6. [op |-> o, gen |-> journals[o].gen + 1] \in Stamp
    BY <1>1 DEF Stamp, Journal
<1>7. session' \in [Procs -> Stamp \cup {None}]
    BY <1>6 DEF Advance, TypeOK
<1>8. journals'[o] # None
    BY <1>3, NoneAssumption
<1> QED
    BY <1>1, <1>2, <1>4, <1>5, <1>7, <1>8 DEF Journal

\* A session's write keeps the invariant when it only commits what the remote
\* accepted and leaves an open journal, and no attempt keeps the generation.
LEMMA AdvancePreserves ==
    ASSUME IndInv, NEW p \in Procs, NEW o \in Ops, NEW s \in JournalStates,
           journals[o] # None, journals[o].state \in OpenStates,
           s = "Committed" => o \in accepted,
           Advance(p, o, s),
           UNCHANGED <<registryGen, records, manager, world, observed>>,
           \/ UNCHANGED attempts
           \/ /\ s = "InFlight"
              /\ attempts' = attempts \cup {[op |-> o, gen |-> journals[o].gen + 1]}
    PROVE  IndInv'
<1> USE DEF IndInv
<1>0. TypeOK
    OBVIOUS
<1>1. journals[o] \in Journal
    BY DEF TypeOK
<1>2. /\ journals' \in [Ops -> Journal \cup {None}]
      /\ session' \in [Procs -> Stamp \cup {None}]
      /\ journals'[o] # None
      /\ journals'[o].pred = journals[o].pred
      /\ journals'[o].state = s
      /\ journals'[o].gen = journals[o].gen + 1
      /\ \A q \in Ops : q # o => journals'[q] = journals[q]
    BY <1>0, AdvanceTypes
<1>3. [op |-> o, gen |-> journals[o].gen + 1] \in Stamp
    BY <1>1 DEF Stamp, Journal
<1>4. TypeOK'
    BY <1>2, <1>3 DEF TypeOK, world, manager
<1>5. NoForks'
  <2>1. journals[o].state # "Aborted"
    BY DEF OpenStates
  <2> QED
    BY <1>2, <2>1 DEF NoForks
<1>6. AttemptsFenced'
  <2> SUFFICES ASSUME NEW a \in attempts'
               PROVE  /\ journals'[a.op] # None
                      /\ a.gen <= journals'[a.op].gen
                      /\ a.gen = journals'[a.op].gen => journals'[a.op].state = "InFlight"
    BY DEF AttemptsFenced
  <2>1. journals[o].gen \in Nat
    BY <1>1 DEF Journal
  <2>2. CASE a \in attempts
    <3>1. a.op \in Ops /\ a.gen \in Nat
      BY <2>2 DEF TypeOK, Stamp
    <3>2. CASE a.op = o
      <4>1. a.gen <= journals[o].gen
        BY <2>2, <3>2 DEF AttemptsFenced
      <4> QED
        BY <1>2, <2>1, <3>1, <3>2, <4>1
    <3>3. CASE a.op # o
      BY <1>2, <2>2, <3>1, <3>3 DEF AttemptsFenced
    <3> QED
      BY <3>2, <3>3
  <2>3. CASE a \notin attempts
    <3>1. a = [op |-> o, gen |-> journals[o].gen + 1] /\ s = "InFlight"
      BY <2>3
    <3>2. a.op = o /\ a.gen = journals[o].gen + 1
      BY <3>1
    <3> QED
      BY <1>2, <2>1, <3>1, <3>2
  <2> QED
    BY <2>2, <2>3
<1>7. RemoteHistory'
  <2>1. \A q \in Ops : journals[q] # None =>
            journals'[q] # None /\ journals'[q].pred = journals[q].pred
    BY <1>2
  <2>2. requests \subseteq Ops /\ accepted \subseteq Ops
    BY DEF TypeOK
  <2> QED
    BY <2>1, <2>2 DEF RemoteHistory, world
<1>8. CommitsAccepted'
    BY <1>2 DEF CommitsAccepted, world
<1> QED
    BY <1>4, <1>5, <1>6, <1>7, <1>8

\* Steps that leave the journals, the attempts and the remote's history alone.
LEMMA QuietPreserves ==
    ASSUME IndInv, TypeOK', UNCHANGED <<journals, attempts, world, observed>>
    PROVE  IndInv'
    BY DEF IndInv, NoForks, AttemptsFenced, RemoteHistory, CommitsAccepted, world

\* An empty store and a remote that serves the first documents satisfy it.
THEOREM InitInv == Init => IndInv
<1> SUFFICES ASSUME Init PROVE IndInv
    OBVIOUS
<1>1. TypeOK
    BY DEF Init, TypeOK, IdentityRecord, RemoteDocument
<1>2. \A o \in Ops : journals[o] = None
    BY DEF Init
<1>3. RemoteHistory
    BY DEF Init, RemoteHistory
<1> QED
    BY <1>1, <1>2, <1>3 DEF Init, IndInv, NoForks, AttemptsFenced, CommitsAccepted

\* Preparing creates the only journal of its predecessor that is not aborted.
LEMMA PreparePreserves ==
    ASSUME IndInv, NEW p \in Procs, NEW o \in Ops, NEW pred \in Dids,
           NEW succ \in Dids, Prepare(p, o, pred, succ)
    PROVE  IndInv'
<1> USE DEF IndInv
<1> DEFINE j == NewJournal(pred, succ)
<1>1. records[pred] \in IdentityRecord /\ records[succ] \in IdentityRecord
    BY DEF TypeOK, Prepare
<1>2. j \in Journal
    BY <1>1 DEF NewJournal, Journal, IdentityRecord, JournalStates
<1>3. /\ j.pred = pred
      /\ j.state = "Prepared"
      /\ j # None
    BY <1>2, NoneAssumption DEF NewJournal
<1> HIDE DEF j
<1>4. /\ journals[o] = None
      /\ journals' = [journals EXCEPT ![o] = j]
      /\ session' = [session EXCEPT ![p] = [op |-> o, gen |-> 1]]
      /\ UNCHANGED <<registryGen, records, manager, attempts, world, observed>>
      /\ Blocking(pred) = {}
    BY DEF Prepare, j
<1>5. /\ journals'[o] = j
      /\ \A q \in Ops : q # o => journals'[q] = journals[q]
    BY <1>4 DEF TypeOK
<1>6. TypeOK'
  <2>1. [op |-> o, gen |-> 1] \in Stamp
    BY DEF Stamp
  <2> QED
    BY <1>2, <1>4, <2>1 DEF TypeOK, world, manager
<1>7. NoForks'
  <2>1. \A q \in Ops : journals[q] # None /\ journals[q].pred = pred
            => journals[q].state = "Aborted"
    BY <1>4 DEF Blocking
  <2> QED
    BY <1>3, <1>5, <2>1 DEF NoForks
<1>8. AttemptsFenced'
  <2>1. \A a \in attempts : a.op \in Ops /\ a.op # o
    BY <1>4 DEF AttemptsFenced, TypeOK, Stamp
  <2> QED
    BY <1>4, <1>5, <2>1 DEF AttemptsFenced
<1>9. RemoteHistory'
  <2>1. \A q \in requests \cup accepted : q \in Ops /\ q # o
    BY <1>4 DEF RemoteHistory, TypeOK
  <2> QED
    BY <1>4, <1>5, <2>1 DEF RemoteHistory, world
<1>10. CommitsAccepted'
    BY <1>3, <1>4, <1>5 DEF CommitsAccepted, world
<1> QED
    BY <1>6, <1>7, <1>8, <1>9, <1>10

\* The remote moves a DID once, for an operation that has a journal.
LEMMA AcceptPreserves ==
    ASSUME IndInv, NEW o \in Ops, Accept(o)
    PROVE  IndInv'
<1> USE DEF IndInv
<1> DEFINE d == journals[o].pred
<1>1. journals[o] # None /\ journals[o] \in Journal
    BY DEF Accept, RemoteHistory, TypeOK
<1>2. d \in Dids
    BY <1>1 DEF Journal
<1>3. remote[d].moved = None /\ remote[d] \in RemoteDocument
    BY <1>2 DEF Accept, TypeOK
<1>4. /\ remote' = [remote EXCEPT ![d].moved = o]
      /\ accepted' = accepted \cup {o}
      /\ UNCHANGED <<store, manager, session, attempts, requests, observed>>
    BY DEF Accept
<1>5. /\ remote'[d] = [remote[d] EXCEPT !.moved = o]
      /\ \A e \in Dids : e # d => remote'[e] = remote[e]
    BY <1>2, <1>4 DEF TypeOK
<1>6. remote'[d].moved = o /\ remote'[d] \in RemoteDocument
    BY <1>3, <1>5 DEF RemoteDocument
<1> HIDE DEF d
<1>7. TypeOK'
    BY <1>2, <1>4, <1>6 DEF TypeOK, store, manager
<1>8. RemoteHistory'
  <2>1. \A q \in accepted : q \in Ops /\ journals[q] # None
            /\ journals[q] \in Journal /\ remote[journals[q].pred].moved = q
    BY DEF RemoteHistory, TypeOK
  <2>2. \A q \in accepted : journals[q].pred \in Dids /\ journals[q].pred # d
    BY <1>3, <2>1, NoneAssumption DEF Journal
  <2>3. \A q \in accepted' : journals'[q] # None /\ remote'[journals'[q].pred].moved = q
    BY <1>1, <1>4, <1>5, <1>6, <2>1, <2>2 DEF store, d
  <2>4. \A e \in Dids : remote'[e].moved # None => remote'[e].moved \in accepted'
    BY <1>4, <1>5, <1>6 DEF RemoteHistory
  <2> QED
    BY <1>4, <2>3, <2>4 DEF RemoteHistory, store
<1>9. NoForks' /\ AttemptsFenced' /\ CommitsAccepted'
    BY <1>4 DEF NoForks, AttemptsFenced, CommitsAccepted, store
<1> QED
    BY <1>7, <1>8, <1>9

\* Every handler of a session, every step of the hosts and of the remote, and
\* every other handler of the store keeps the invariant.
THEOREM NextInv == IndInv /\ [Next]_vars => IndInv'
<1> SUFFICES ASSUME IndInv, [Next]_vars PROVE IndInv'
    OBVIOUS
<1>0. TypeOK
    BY DEF IndInv
<1>1. ASSUME NEW p \in Procs, NEW o \in Ops, NEW pred \in Dids, NEW succ \in Dids,
             Prepare(p, o, pred, succ)
      PROVE  IndInv'
    BY <1>1, PreparePreserves
<1>2. ASSUME NEW p \in Procs, NEW o \in Ops, NEW pred \in Dids, NEW succ \in Dids,
             ReplayPrepare(p, o, pred, succ)
      PROVE  IndInv'
  <2>1. StampOf(o, journals[o]) \in Stamp
    BY <1>0, <1>2 DEF ReplayPrepare, MatchesRequest, TypeOK, StampOf, Stamp, Journal
  <2>2. TypeOK'
    BY <1>0, <1>2, <2>1 DEF ReplayPrepare, TypeOK, store, world, manager
  <2> QED
    BY <1>2, <2>2, QuietPreserves DEF ReplayPrepare, store
<1>3. ASSUME NEW p \in Procs, NEW d \in Dids, Resume(p, d)
      PROVE  IndInv'
  <2>1. \A o \in Resumable(d) : StampOf(o, journals[o]) \in Stamp
    BY <1>0 DEF Resumable, Open, TypeOK, StampOf, Stamp, Journal
  <2>2. session' \in [Procs -> Stamp \cup {None}]
    BY <1>0, <1>3, <2>1 DEF Resume, TypeOK
  <2>3. TypeOK'
    BY <1>0, <1>3, <2>2 DEF Resume, TypeOK, store, world
  <2> QED
    BY <1>3, <2>3, QuietPreserves DEF Resume, store
<1>3a. ASSUME NEW p \in Procs, NEW d \in Dids,
              ResumeReload(p, d) \/ ResumeRaced(p, d)
       PROVE  IndInv'
  <2>1. [did |-> d, settled |-> {o \in Ops : journals[o] # None /\ ~Open(o)}]
            \in ResumeCall
    BY DEF ResumeCall
  <2>2. resuming' \in [Procs -> ResumeCall \cup {None}] /\ view' \in [Procs -> Nat]
    <3>1. CASE ResumeReload(p, d)
      BY <1>0, <2>1, <3>1 DEF ResumeReload, TypeOK
    <3>2. CASE ResumeRaced(p, d)
      BY <1>0, <3>2 DEF ResumeRaced, TypeOK
    <3> QED
      BY <1>3a, <3>1, <3>2
  <2>3. TypeOK'
    BY <1>0, <1>3a, <2>2 DEF ResumeReload, ResumeRaced, TypeOK, store, world
  <2> QED
    BY <1>3a, <2>3, QuietPreserves DEF ResumeReload, ResumeRaced, store
<1>4. ASSUME NEW p \in Procs, NEW d \in Dids, Observe(p, d)
      PROVE  IndInv'
  <2>1. observed' = [observed EXCEPT ![p][d] = remote[d]]
        /\ UNCHANGED <<registryGen, records, journals, view, resuming, session, attempts,
                       requests, remote, accepted>>
    BY <1>4 DEF Observe, store, world, manager
  <2>2. TypeOK'
    BY <1>0, <2>1 DEF TypeOK
  <2>3. \A q \in Procs, e \in Dids :
            observed'[q][e] \in {observed[q][e], remote[e]}
    BY <1>0, <2>1 DEF TypeOK
  <2>4. RemoteHistory'
    BY <2>1, <2>3 DEF IndInv, RemoteHistory
  <2> QED
    BY <2>1, <2>2, <2>4 DEF IndInv, NoForks, AttemptsFenced, CommitsAccepted
<1>5. ASSUME NEW p \in Procs, NEW d \in Dids, AdoptSiblingDocument(p, d)
      PROVE  IndInv'
  <2>1. records[d].gen + 1 \in Nat /\ observed[p][d].doc \in Nat
    BY <1>0, <1>5 DEF AdoptSiblingDocument, TypeOK, IdentityRecord, RemoteDocument
  <2>2. TypeOK'
    BY <1>0, <1>5, <2>1 DEF AdoptSiblingDocument, TypeOK, IdentityRecord, world, manager
  <2> QED
    BY <1>5, <2>2, QuietPreserves DEF AdoptSiblingDocument
<1>6. ASSUME NEW p \in Procs, NEW d \in Dids, DeleteIdentity(p, d)
      PROVE  IndInv'
  <2>1. TypeOK'
    BY <1>0, <1>6 DEF DeleteIdentity, TypeOK, world
  <2> QED
    BY <1>6, <2>1, QuietPreserves DEF DeleteIdentity
<1>7. ASSUME NEW p \in Procs, NEW o \in Ops, BeginPublication(p, o)
      PROVE  IndInv'
  <2>1. journals[o] # None /\ journals[o] \in Journal
    BY <1>0, <1>7 DEF BeginPublication, ReloadAndValidate, TypeOK
  <2>2. UNCHANGED <<registryGen, records, manager, world, observed>>
    BY <1>7 DEF BeginPublication
  <2>3. CASE /\ journals[o].state = "Prepared"
             /\ Advance(p, o, "InFlight")
             /\ attempts' = attempts \cup {[op |-> o, gen |-> journals[o].gen + 1]}
    BY <2>1, <2>2, <2>3, AdvancePreserves DEF OpenStates, JournalStates
  <2>4. CASE /\ journals[o].state = "InFlight"
             /\ attempts' = attempts \cup {StampOf(o, journals[o])}
             /\ UNCHANGED <<journals, session>>
    <3>1. StampOf(o, journals[o]) \in Stamp
      BY <2>1 DEF StampOf, Stamp, Journal
    <3>2. TypeOK'
      BY <1>0, <2>2, <2>4, <3>1 DEF TypeOK, world, manager
    <3>3. AttemptsFenced'
      BY <2>1, <2>4 DEF IndInv, AttemptsFenced, StampOf, Journal
    <3> QED
      BY <2>2, <2>4, <3>2, <3>3
      DEF IndInv, NoForks, RemoteHistory, CommitsAccepted, world
  <2> QED
    BY <1>7, <2>3, <2>4 DEF BeginPublication
<1>8. ASSUME NEW p \in Procs, NEW o \in Ops, Reconcile(p, o)
      PROVE  IndInv'
  <2>1. journals[o] # None /\ journals[o] \in Journal /\ journals[o].state = "Uncertain"
    BY <1>0, <1>8 DEF Reconcile, ReloadAndValidate, TypeOK
  <2>2. UNCHANGED <<registryGen, records, manager, attempts, world, observed>>
    BY <1>8 DEF Reconcile
  <2>3. CASE SeenOld(p, o) /\ Advance(p, o, "Prepared")
    BY <2>1, <2>2, <2>3, AdvancePreserves DEF OpenStates, JournalStates
  <2>4. CASE SeenPublished(p, o) /\ Advance(p, o, "Committed")
    <3>1. o \in accepted
      BY <2>1, <2>4, NoneAssumption DEF IndInv, RemoteHistory, SeenPublished, Journal
    <3> QED
      BY <2>1, <2>2, <2>4, <3>1, AdvancePreserves DEF OpenStates, JournalStates
  <2> QED
    BY <1>8, <2>3, <2>4 DEF Reconcile
<1>9. ASSUME NEW p \in Procs, NEW o \in Ops, NEW a \in attempts,
             NEW evidence \in Ops, CompleteConfirmed(p, o, a, evidence)
      PROVE  IndInv'
  <2>1. /\ journals[o] # None
        /\ journals[o].state = "InFlight"
        /\ o \in accepted
        /\ Advance(p, o, "Committed")
        /\ UNCHANGED <<registryGen, records, manager, attempts, world, observed>>
    BY <1>9 DEF CompleteConfirmed, Completing, ReloadAndValidate
  <2> QED
    BY <2>1, AdvancePreserves DEF OpenStates, JournalStates
<1>10. ASSUME NEW p \in Procs, NEW o \in Ops, NEW a \in attempts,
              CompleteRejected(p, o, a)
       PROVE  IndInv'
  <2>1. /\ journals[o] # None
        /\ journals[o].state = "InFlight"
        /\ Advance(p, o, "Aborted")
        /\ UNCHANGED <<registryGen, records, manager, attempts, world, observed>>
    BY <1>10 DEF CompleteRejected, Completing, ReloadAndValidate
  <2> QED
    BY <2>1, AdvancePreserves DEF OpenStates, JournalStates
<1>11. ASSUME NEW p \in Procs, NEW o \in Ops, NEW a \in attempts,
              CompleteUnknown(p, o, a)
       PROVE  IndInv'
  <2>1. /\ journals[o] # None
        /\ journals[o].state = "InFlight"
        /\ Advance(p, o, "Uncertain")
        /\ UNCHANGED <<registryGen, records, manager, attempts, world, observed>>
    BY <1>11 DEF CompleteUnknown, Completing, ReloadAndValidate
  <2> QED
    BY <2>1, AdvancePreserves DEF OpenStates, JournalStates
<1>12. ASSUME NEW a \in attempts, Send(a)
       PROVE  IndInv'
  <2>1. a.op \in Ops /\ journals[a.op] # None
    BY <1>0 DEF IndInv, AttemptsFenced, TypeOK, Stamp
  <2>2. /\ requests' = requests \cup {a.op}
        /\ UNCHANGED <<registryGen, records, journals, view, resuming, session, attempts,
                       remote, accepted, observed>>
    BY <1>12 DEF Send, store, manager
  <2>3. TypeOK'
    BY <1>0, <2>1, <2>2 DEF TypeOK
  <2> QED
    BY <2>1, <2>2, <2>3
    DEF IndInv, NoForks, AttemptsFenced, RemoteHistory, CommitsAccepted
<1>13. ASSUME NEW o \in Ops, Accept(o)
       PROVE  IndInv'
    BY <1>13, AcceptPreserves
<1>14. ASSUME NEW p \in Procs, Restart(p)
       PROVE  IndInv'
  <2>1. /\ observed' = [observed EXCEPT ![p] = [d \in Dids |-> None]]
        /\ view' = [view EXCEPT ![p] = registryGen]
        /\ resuming' = [resuming EXCEPT ![p] = None]
        /\ session' = [session EXCEPT ![p] = None]
        /\ UNCHANGED <<registryGen, records, journals, attempts,
                       requests, remote, accepted>>
    BY <1>14 DEF Restart, store, world
  <2>2. TypeOK'
    BY <1>0, <2>1 DEF TypeOK
  <2>3. \A q \in Procs, e \in Dids : observed'[q][e] \in {observed[q][e], None}
    BY <1>0, <2>1 DEF TypeOK
  <2>4. RemoteHistory'
    BY <2>1, <2>3 DEF IndInv, RemoteHistory
  <2> QED
    BY <2>1, <2>2, <2>4 DEF IndInv, NoForks, AttemptsFenced, CommitsAccepted
<1>15. ASSUME NEW d \in Dids, PublishDocument(d)
       PROVE  IndInv'
  <2>1. /\ remote' = [remote EXCEPT ![d].doc = @ + 1]
        /\ UNCHANGED <<registryGen, records, journals, view, resuming, session, attempts,
                       requests, accepted, observed>>
    BY <1>15 DEF PublishDocument, store, manager
  <2>2. \A r \in RemoteDocument :
            /\ [r EXCEPT !.doc = r.doc + 1] \in RemoteDocument
            /\ [r EXCEPT !.doc = r.doc + 1].moved = r.moved
    BY DEF RemoteDocument
  <2>3. \A e \in Dids : remote[e] \in RemoteDocument /\ remote'[e] \in
            {remote[e], [remote[e] EXCEPT !.doc = remote[e].doc + 1]}
    BY <1>0, <2>1 DEF TypeOK
  <2>4. \A e \in Dids : remote'[e] \in RemoteDocument /\ remote'[e].moved = remote[e].moved
    BY <2>2, <2>3
  <2>5. TypeOK'
    BY <1>0, <2>1, <2>4 DEF TypeOK
  <2>6. \A o \in accepted : journals[o].pred \in Dids
    BY <1>0 DEF IndInv, RemoteHistory, TypeOK, Journal
  <2>7. RemoteHistory'
    BY <2>1, <2>4, <2>6 DEF IndInv, RemoteHistory
  <2> QED
    BY <2>1, <2>5, <2>7 DEF IndInv, NoForks, AttemptsFenced, CommitsAccepted
<1>16. ASSUME NEW d \in Dids, NEW doc \in 1 .. MaxVersion,
              NEW registryToo \in BOOLEAN, ChangeRecord(d, doc, registryToo)
       PROVE  IndInv'
  <2>1. registryGen' \in Nat
    BY <1>0, <1>16 DEF ChangeRecord, TypeOK
  <2>2. doc \in Nat /\ records[d].gen + 1 \in Nat
    BY <1>0, <1>16, ConstantsAssumption DEF ChangeRecord, TypeOK, IdentityRecord
  <2>3. TypeOK'
    BY <1>0, <1>16, <2>1, <2>2 DEF ChangeRecord, TypeOK, IdentityRecord, world, manager
  <2> QED
    BY <1>16, <2>3, QuietPreserves DEF ChangeRecord
<1>17. CASE UNCHANGED vars
  <2>1. TypeOK'
    BY <1>0, <1>17 DEF TypeOK, vars
  <2> QED
    BY <1>17, <2>1, QuietPreserves DEF vars, world
<1> QED
    BY <1>1, <1>2, <1>3, <1>3a, <1>4, <1>5, <1>6, <1>7, <1>8, <1>9, <1>10, <1>11, <1>12,
       <1>13, <1>14, <1>15, <1>16, <1>17 DEF Next

\* The parts of the invariant hold in every state of every behaviour.
LEMMA Invariance == Spec => []IndInv
    BY InitInv, NextInv, PTL DEF Spec

\* Files, sessions, attempts and the remote's state keep their shape.
THEOREM TypeCorrect == Spec => []TypeOK
<1>1. IndInv => TypeOK
    BY DEF IndInv
<1> QED
    BY <1>1, Invariance, PTL

\* prepare and resume: a predecessor never has two transitions that were not
\* aborted, for any number of processes and operations.
THEOREM TransitionsNeverFork == Spec => []NoForks
<1>1. IndInv => NoForks
    BY DEF IndInv
<1> QED
    BY <1>1, Invariance, PTL

\* complete: an attempt decides nothing once its publication was settled.
THEOREM LateAttemptsRefused == Spec => []AttemptsFenced
<1>1. IndInv => AttemptsFenced
    BY DEF IndInv
<1> QED
    BY <1>1, Invariance, PTL

\* complete and reconcile: only what the remote accepted is ever committed.
THEOREM CommitsArePublished == Spec => []CommittedWasPublished
<1>1. IndInv => CommittedWasPublished
    BY DEF IndInv, CommitsAccepted, RemoteHistory, CommittedWasPublished
<1> QED
    BY <1>1, Invariance, PTL

-----------------------------------------------------------------------------
(* What a generation check says about documents.                            *)

\* A record that is still at the pinned generation holds the pinned document;
\* otherwise it is gone or at a later generation.
PinHolds(d, gen, doc) ==
    records[d] # None => /\ records[d].gen >= gen
                         /\ records[d].gen = gen => records[d].doc = doc

\* Generation checks are exact for both records of every journal, open or not.
PinsExact ==
    \A o \in Ops : journals[o] # None =>
        /\ PinHolds(journals[o].pred, journals[o].predGen, journals[o].trusted)
        /\ PinHolds(journals[o].succ, journals[o].succGen, journals[o].succDoc)

\* The record of a DID stays, is deleted for good, or is replaced under the next
\* generation.
RecordAdvances(d) ==
    \/ records'[d] = records[d]
    \/ records'[d] = None
    \/ /\ records[d] # None
       /\ records'[d].gen = records[d].gen + 1

\* Two journals of the same documents, pinned at the same generations.
SamePins(j, k) ==
    /\ j.pred = k.pred /\ j.predGen = k.predGen /\ j.trusted = k.trusted
    /\ j.succ = k.succ /\ j.succGen = k.succGen /\ j.succDoc = k.succDoc

\* A journal stays, is prepared from the records on disk, or is written by a
\* session that found both pinned generations on disk.
JournalAdvances(o) ==
    \/ journals'[o] = journals[o]
    \/ /\ UNCHANGED records
       /\ journals[o] = None
       /\ \E pred, succ \in Dids :
            /\ records[pred] # None /\ records[succ] # None
            /\ journals'[o] = NewJournal(pred, succ)
    \/ /\ UNCHANGED records
       /\ journals[o] # None
       /\ Pinned(journals[o])
       /\ SamePins(journals'[o], journals[o])

\* Every handler that replaces a record, whether it looks at the transition
\* journals or not, writes the next generation.
LEMMA RecordsAdvance ==
    ASSUME TypeOK, [Next]_vars, NEW d \in Dids
    PROVE  RecordAdvances(d)
<1>1. ASSUME NEW p \in Procs, NEW e \in Dids, AdoptSiblingDocument(p, e)
      PROVE  RecordAdvances(d)
    BY <1>1 DEF AdoptSiblingDocument, RecordAdvances, TypeOK
<1>2. ASSUME NEW e \in Dids, NEW doc \in 1 .. MaxVersion,
             NEW registryToo \in BOOLEAN, ChangeRecord(e, doc, registryToo)
      PROVE  RecordAdvances(d)
    BY <1>2 DEF ChangeRecord, RecordAdvances, TypeOK
<1>3. ASSUME NEW p \in Procs, NEW e \in Dids, DeleteIdentity(p, e)
      PROVE  RecordAdvances(d)
    BY <1>3 DEF DeleteIdentity, RecordAdvances, TypeOK
<1>4. ASSUME UNCHANGED records
      PROVE  RecordAdvances(d)
    BY <1>4, Zenon DEF RecordAdvances
<1>5. ASSUME NEW p \in Procs, NEW o \in Ops,
             \/ \E pred, succ \in Dids :
                    Prepare(p, o, pred, succ) \/ ReplayPrepare(p, o, pred, succ)
             \/ BeginPublication(p, o) \/ Reconcile(p, o)
             \/ \E a \in attempts, evidence \in Ops :
                    \/ CompleteConfirmed(p, o, a, evidence)
                    \/ CompleteRejected(p, o, a)
                    \/ CompleteUnknown(p, o, a)
      PROVE  UNCHANGED records
    BY <1>5 DEF Prepare, ReplayPrepare, BeginPublication, Reconcile, CompleteConfirmed,
                CompleteRejected, CompleteUnknown, store
<1>6. ASSUME \/ \E p \in Procs, e \in Dids :
                    ResumeReload(p, e) \/ Resume(p, e) \/ ResumeRaced(p, e) \/ Observe(p, e)
             \/ \E a \in attempts : Send(a)
             \/ \E o \in Ops : Accept(o)
             \/ \E p \in Procs : Restart(p)
             \/ \E e \in Dids : PublishDocument(e)
             \/ UNCHANGED vars
      PROVE  UNCHANGED records
    BY <1>6 DEF ResumeReload, Resume, ResumeRaced, Observe, Send, Accept, Restart,
                PublishDocument, store, vars
<1> QED
    BY <1>1, <1>2, <1>3, <1>4, <1>5, <1>6 DEF Next

\* A session's write keeps the pins of its journal and touches no other one.
LEMMA AdvanceKeepsPins ==
    ASSUME TypeOK, NEW p \in Procs, NEW q \in Ops, NEW s \in JournalStates,
           ReloadAndValidate(p, q), Advance(p, q, s), UNCHANGED records, NEW o \in Ops
    PROVE  JournalAdvances(o)
<1>1. journals[q] \in Journal /\ journals[q] # None /\ Pinned(journals[q])
    BY DEF TypeOK, ReloadAndValidate
<1>2. CASE o = q
  <2>1. journals'[q] = [journals[q] EXCEPT !.state = s, !.gen = journals[q].gen + 1]
    BY <1>1 DEF Advance, TypeOK, Journal
  <2>2. SamePins(journals'[q], journals[q])
    BY <1>1, <2>1 DEF SamePins, Journal
  <2> QED
    BY <1>1, <1>2, <2>2 DEF JournalAdvances
<1>3. CASE o # q
    BY <1>3 DEF JournalAdvances, Advance, TypeOK
<1> QED
    BY <1>2, <1>3

\* Only prepare creates a journal, and only a session that passed
\* reload_and_validate writes one again.
LEMMA JournalsAdvance ==
    ASSUME TypeOK, [Next]_vars, NEW o \in Ops
    PROVE  JournalAdvances(o)
<1>1. ASSUME NEW p \in Procs, NEW q \in Ops, NEW pred \in Dids, NEW succ \in Dids,
             Prepare(p, q, pred, succ)
      PROVE  JournalAdvances(o)
  <2>1. /\ UNCHANGED records /\ journals[q] = None
        /\ records[pred] # None /\ records[succ] # None
        /\ journals'[q] = NewJournal(pred, succ)
        /\ q # o => journals'[o] = journals[o]
    BY <1>1 DEF Prepare, TypeOK
  <2> QED
    BY <2>1 DEF JournalAdvances
<1>2. ASSUME NEW p \in Procs, NEW q \in Ops, BeginPublication(p, q) \/ Reconcile(p, q)
      PROVE  JournalAdvances(o)
  <2>1. /\ ReloadAndValidate(p, q) /\ UNCHANGED records
        /\ \/ UNCHANGED journals
           \/ \E s \in JournalStates : Advance(p, q, s)
    BY <1>2 DEF BeginPublication, Reconcile, JournalStates
  <2> QED
    BY <2>1, AdvanceKeepsPins DEF JournalAdvances
<1>3. ASSUME NEW p \in Procs, NEW q \in Ops, NEW a \in attempts,
             \/ \E evidence \in Ops : CompleteConfirmed(p, q, a, evidence)
             \/ CompleteRejected(p, q, a)
             \/ CompleteUnknown(p, q, a)
      PROVE  JournalAdvances(o)
  <2>1. /\ ReloadAndValidate(p, q) /\ UNCHANGED records
        /\ \E s \in JournalStates : Advance(p, q, s)
    BY <1>3 DEF CompleteConfirmed, CompleteRejected, CompleteUnknown, Completing,
                JournalStates
  <2> QED
    BY <2>1, AdvanceKeepsPins
<1>4. ASSUME UNCHANGED journals
      PROVE  JournalAdvances(o)
    BY <1>4 DEF JournalAdvances
<1>5. ASSUME \/ \E p \in Procs, q \in Ops, pred, succ \in Dids :
                    ReplayPrepare(p, q, pred, succ)
             \/ \E p \in Procs, d \in Dids :
                    ResumeReload(p, d) \/ Resume(p, d) \/ ResumeRaced(p, d) \/ Observe(p, d)
             \/ \E a \in attempts : Send(a)
             \/ \E q \in Ops : Accept(q)
      PROVE  UNCHANGED journals
    BY <1>5 DEF ReplayPrepare, ResumeReload, Resume, ResumeRaced, Observe, Send, Accept,
                store
<1>6. ASSUME \/ \E p \in Procs, d \in Dids : AdoptSiblingDocument(p, d) \/ DeleteIdentity(p, d)
             \/ \E p \in Procs : Restart(p)
             \/ \E d \in Dids : PublishDocument(d)
             \/ \E d \in Dids, doc \in 1 .. MaxVersion, registryToo \in BOOLEAN :
                    ChangeRecord(d, doc, registryToo)
             \/ UNCHANGED vars
      PROVE  UNCHANGED journals
    BY <1>6 DEF AdoptSiblingDocument, DeleteIdentity, Restart, PublishDocument,
                ChangeRecord, store, vars
<1> QED
    BY <1>1, <1>2, <1>3, <1>4, <1>5, <1>6 DEF Next

\* A pin that is exact stays exact while its record advances.
LEMMA PinStays ==
    ASSUME TypeOK, TypeOK', NEW d \in Dids, NEW gen \in Nat, NEW doc \in Nat,
           RecordAdvances(d), PinHolds(d, gen, doc)
    PROVE  PinHolds(d, gen, doc)'
<1>1. records[d] # None => records[d] \in IdentityRecord
    BY DEF TypeOK
<1>2. CASE records'[d] = records[d]
    BY <1>2 DEF PinHolds
<1>3. CASE records'[d] = None
    BY <1>3 DEF PinHolds
<1>4. CASE records[d] # None /\ records'[d].gen = records[d].gen + 1
    BY <1>1, <1>4 DEF PinHolds, IdentityRecord
<1> QED
    BY <1>2, <1>3, <1>4 DEF RecordAdvances

\* The generation checks of every journal stay exact in every step.
LEMMA PinsStayExact ==
    ASSUME TypeOK, TypeOK', PinsExact, [Next]_vars
    PROVE  PinsExact'
<1> SUFFICES ASSUME NEW o \in Ops, journals'[o] # None
             PROVE  /\ PinHolds(journals[o].pred, journals[o].predGen, journals[o].trusted)'
                    /\ PinHolds(journals[o].succ, journals[o].succGen, journals[o].succDoc)'
    BY DEF PinsExact
<1>1. \A d \in Dids : RecordAdvances(d)
    BY RecordsAdvance
<1>2. JournalAdvances(o)
    BY JournalsAdvance
<1>3. ASSUME journals[o] # None
      PROVE  /\ PinHolds(journals[o].pred, journals[o].predGen, journals[o].trusted)
             /\ PinHolds(journals[o].succ, journals[o].succGen, journals[o].succDoc)
             /\ journals[o].pred \in Dids /\ journals[o].succ \in Dids
             /\ journals[o].predGen \in Nat /\ journals[o].succGen \in Nat
             /\ journals[o].trusted \in Nat /\ journals[o].succDoc \in Nat
    BY <1>3 DEF PinsExact, TypeOK, Journal
<1>4. CASE journals'[o] = journals[o]
  <2>1. \A d \in Dids, gen, doc \in Nat : PinHolds(d, gen, doc) =>
            (records'[d] # None => /\ records'[d].gen >= gen
                                   /\ records'[d].gen = gen => records'[d].doc = doc)
    BY <1>1, PinStays DEF PinHolds
  <2> QED
    BY <1>3, <1>4, <2>1 DEF PinHolds
<1>5. CASE /\ UNCHANGED records
           /\ \E pred, succ \in Dids :
                /\ records[pred] # None /\ records[succ] # None
                /\ journals'[o] = NewJournal(pred, succ)
  <2>1. PICK pred \in Dids, succ \in Dids :
            /\ records[pred] # None /\ records[succ] # None
            /\ journals'[o] = NewJournal(pred, succ)
    BY <1>5
  <2>2. records[pred].gen \in Nat /\ records[succ].gen \in Nat
    BY <2>1 DEF TypeOK, IdentityRecord
  <2> QED
    BY <1>5, <2>1, <2>2 DEF PinHolds, NewJournal
<1>6. CASE /\ UNCHANGED records
           /\ journals[o] # None
           /\ SamePins(journals'[o], journals[o])
    BY <1>3, <1>6 DEF PinHolds, SamePins
<1> QED
    BY <1>2, <1>4, <1>5, <1>6 DEF JournalAdvances

\* reload_and_validate: whatever document updates, adoptions, convergence and
\* deletions did to the two identities, a session that finds the pinned
\* generations works on the documents its candidate was made from.
THEOREM CandidatesStayCurrent == Spec => CandidateIsCurrent
<1>1. Init => PinsExact
    BY DEF Init, PinsExact
<1>2. TypeOK /\ TypeOK' /\ PinsExact /\ [Next]_vars => PinsExact'
    BY PinsStayExact
<1>3. Spec => []PinsExact
    BY <1>1, <1>2, TypeCorrect, PTL DEF Spec
<1> DEFINE Current == \A o \in Ops : journals[o] # None /\ journals'[o] # journals[o]
                                        => MadeFrom(journals[o])
<1>4. TypeOK /\ PinsExact /\ [Next]_vars => [Current]_vars
  <2> SUFFICES ASSUME TypeOK, PinsExact, [Next]_vars, NEW o \in Ops,
                      journals[o] # None, journals'[o] # journals[o]
               PROVE  MadeFrom(journals[o])
    OBVIOUS
  <2>1. Pinned(journals[o])
    BY JournalsAdvance DEF JournalAdvances
  <2> QED
    BY <2>1 DEF PinsExact, PinHolds, Pinned, MadeFrom
<1> QED
    BY <1>3, <1>4, TypeCorrect, PTL DEF Spec, CandidateIsCurrent
=============================================================================
