------------------------- MODULE ContractWitnessProofs -------------------------
(***************************************************************************)
(* Proofs about the two witnesses of the contract engine: the guardian,    *)
(* which reads its snapshots (ContractObservation), and the audit log,     *)
(* which follows its negotiations and its verification records             *)
(* (ContractAudit).  For every engine instance, every set of neighbouring  *)
(* contracts and any number of records on the edge.                        *)
(***************************************************************************)
EXTENDS ContractObservation, ContractAudit, BilateralContractProofs

\* The invariant of the engine, in terms of what the guardian looks at: it looks
\* at a contract exactly when that has been frozen once.
LEMMA LooksAtFrozen ==
    ASSUME IInv
    PROVE  /\ Looked <=> revisions # <<>>
           /\ Bootstraps <=> revisions = <<>> /\ state # "agreed"
           /\ Len(revisions) \in Nat
           /\ \A i \in 1 .. Len(revisions) : revisions[i].number = i /\ revisions[i] \in Revision
           /\ DOMAIN revisions = 1 .. Len(revisions)
<1>1. /\ revisions \in Seq(Revision)
      /\ state \in ContractState
      /\ state \in PreFreeze \cup {"withdrawn"} => revisions = <<>>
      /\ state \in Frozen => revisions # <<>>
      /\ \A i \in DOMAIN revisions : revisions[i].number = i
  BY DEF IInv, TypeOK, RevisionsAccountedFor
<1>2. /\ Len(revisions) \in Nat /\ DOMAIN revisions = 1 .. Len(revisions)
      /\ \A i \in 1 .. Len(revisions) : revisions[i] \in Revision
  BY <1>1
<1>3. Looked <=> revisions # <<>>
  BY <1>1 DEF Looked, Bootstraps, Observed, ContractState, PreFreeze, Frozen, Terminal
<1>4. Bootstraps <=> revisions = <<>> /\ state # "agreed"
  BY <1>1 DEF Bootstraps, ContractState, PreFreeze, Frozen, Terminal
<1> QED
  BY <1>1, <1>2, <1>3, <1>4

\* A step of the engine keeps the revisions or adds one that was not there.
LEMMA RevisionsStep ==
    ASSUME IInv, [Next]_vars
    PROVE  \/ revisions' = revisions
           \/ /\ Len(revisions') = Len(revisions) + 1
              /\ \A i \in 1 .. Len(revisions) : revisions'[i] = revisions[i]
<1>1. CASE revisions' = revisions
  BY <1>1
<1>2. CASE \E terms \in Terms :
               revisions' = Append(revisions, [number |-> Len(revisions) + 1, content |-> terms])
  <2>1. PICK terms \in Terms :
            revisions' = Append(revisions, [number |-> Len(revisions) + 1, content |-> terms])
    BY <1>2
  <2>2. revisions \in Seq(Revision)
    BY DEF IInv, TypeOK
  <2> QED
    BY <2>1, <2>2, Pushed
<1> QED
  BY <1>1, <1>2, StepGrows DEF Grows

\* The guardian can read every snapshot the engine writes.
THEOREM Readable == Spec => []SnapshotIsReadable
<1>1. IInv => SnapshotIsReadable
  <2> SUFFICES ASSUME IInv PROVE ~ Unreadable
    BY DEF SnapshotIsReadable
  <2>1. NumbersRise
    BY LooksAtFrozen DEF NumbersRise
  <2>2. state = "withdrawn" => revisions = <<>>
    BY DEF IInv, RevisionsAccountedFor
  <2> QED
    BY <2>1, <2>2, LooksAtFrozen DEF Unreadable
<1> QED
  BY <1>1, Invariant, PTL

\* The last revision of a frozen contract is in force, the others are superseded;
\* of one that was never frozen there is only its wish for bootstrap traffic.
Seen(others, proposing) ==
    LET view == View(others, proposing)
    IN  /\ view.sound
        /\ view.current = others \cup
               (IF revisions = <<>> THEN {} ELSE {revisions[Len(revisions)]})
        /\ view.superseded = {revisions[i] : i \in 1 .. Len(revisions) - 1}
        /\ view.bootstrap <=> proposing \/ (revisions = <<>> /\ state # "agreed")

LEMMA Sees == IInv => \A others, proposing : Seen(others, proposing)
<1> SUFFICES ASSUME IInv, NEW others, NEW proposing PROVE Seen(others, proposing)
  OBVIOUS
<1>1. CASE revisions # <<>>
  <2>1. Looked /\ ~ Bootstraps
    BY <1>1, LooksAtFrozen
  <2> QED
    BY <1>1, <2>1 DEF Seen, View, InForce, Superseded, frozen_digest
<1>2. CASE revisions = <<>>
  <2>1. ~ Looked /\ (Bootstraps <=> state # "agreed")
    BY <1>2, LooksAtFrozen
  <2>2. Len(revisions) = 0 /\ 1 .. 0 - 1 = {}
    BY <1>2
  <2>3. {revisions[i] : i \in 1 .. Len(revisions) - 1} = {}
    BY <2>2
  <2> QED
    BY <1>2, <2>1, <2>3 DEF Seen, View, InForce, Superseded
<1> QED
  BY <1>1, <1>2

\* The same of the state after a step.
LEMMA SeesNext == IInv' => (\A others, proposing : Seen(others, proposing))'
BY Sees, PTL

\* Every frozen revision is one, before and after a step.
LEMMA RevisionsTyped == IInv => \A i \in 1 .. Len(revisions) : revisions[i] \in Revision
BY LooksAtFrozen

LEMMA RevisionsTypedNext == IInv' => (\A i \in 1 .. Len(revisions) : revisions[i] \in Revision)'
BY RevisionsTyped, PTL

\* What one step does to a view, in the terms of ObservationIsOneWay.
LEMMA ObservationStep ==
    ASSUME IInv, IInv', [Next]_vars,
           NEW others \in SUBSET Neighbours, NEW proposing \in BOOLEAN, NEW claim \in Claims,
           NEW before, before = View(others, proposing),
           NEW after, after = View(others, proposing)'
    PROVE  /\ Permits(before, claim) /\ ~ Permits(after, claim) =>
                 \/ revisions' # revisions
                 \/ claim = NoBinding /\ others # {} /\ state' = "agreed"
           /\ claim \in {revisions[i] : i \in 1 .. Len(revisions) - 1}' =>
                 Contradicts(after, claim)
           /\ revisions # <<>> /\ ~ proposing => Contradicts(after, NoBinding)
<1>1. /\ before.sound
      /\ before.current = others \cup
             (IF revisions = <<>> THEN {} ELSE {revisions[Len(revisions)]})
      /\ before.superseded = {revisions[i] : i \in 1 .. Len(revisions) - 1}
      /\ before.bootstrap <=> proposing \/ (revisions = <<>> /\ state # "agreed")
  BY Sees DEF Seen
<1>2. /\ after.sound
      /\ after.current = others \cup
             (IF revisions' = <<>> THEN {} ELSE {revisions'[Len(revisions')]})
      /\ after.superseded = {revisions'[i] : i \in 1 .. Len(revisions') - 1}
      /\ after.bootstrap <=> proposing \/ (revisions' = <<>> /\ state' # "agreed")
  <2>2. (Seen(others, proposing))'
    BY SeesNext
  <2> QED
    BY <2>2 DEF Seen
<1>3. Len(revisions) \in Nat /\ \A i \in 1 .. Len(revisions) : revisions[i] \in Revision
  BY LooksAtFrozen
<1>4. revisions # <<>> => Len(revisions) > 0
  BY DEF IInv, TypeOK
<1>5. NoBinding \notin Revision \cup Neighbours /\ Neighbours \cap Revision = {}
  BY NeighboursAssumption
<1>6. Permits(before, claim) /\ ~ Permits(after, claim) =>
          \/ revisions' # revisions
          \/ claim = NoBinding /\ others # {} /\ state' = "agreed"
  <2> SUFFICES ASSUME Permits(before, claim), ~ Permits(after, claim), revisions' = revisions
               PROVE  claim = NoBinding /\ others # {} /\ state' = "agreed"
    OBVIOUS
  <2>1. after.current = before.current /\ after.superseded = before.superseded
    BY <1>1, <1>2
  <2> QED
    BY <1>1, <1>2, <2>1 DEF Permits, NothingFrozen
<1>7. claim \in {revisions[i] : i \in 1 .. Len(revisions) - 1}' => Contradicts(after, claim)
  BY <1>2 DEF Contradicts, Permits, Postpones
<1>8. revisions # <<>> /\ ~ proposing => Contradicts(after, NoBinding)
  <2> SUFFICES ASSUME revisions # <<>>, ~ proposing PROVE Contradicts(after, NoBinding)
    OBVIOUS
  <2>1. revisions' # <<>> /\ Len(revisions') \in 1 .. Len(revisions')
    <3>1. Len(revisions') \in Nat /\ Len(revisions') > 0
      BY <1>3, <1>4, RevisionsStep
    <3> QED
      BY <3>1
  <2>2. revisions'[Len(revisions')] \in Revision
    BY <2>1, RevisionsTypedNext
  <2>3. NoBinding \notin after.current /\ after.current # {} /\ ~ after.bootstrap
    BY <1>2, <1>5, <2>1, <2>2
  <2> QED
    BY <2>3 DEF Contradicts, Permits, Postpones, NothingFrozen
<1> QED
  BY <1>6, <1>7, <1>8

\* Only a freeze, or the second vote beside a frozen contract, takes a binding
\* away, and what is superseded never comes back.
THEOREM OneWay == Spec => ObservationIsOneWay
<1>1. IInv /\ IInv' /\ [Next]_vars =>
        [ \A others \in SUBSET Neighbours, proposing \in BOOLEAN, claim \in Claims :
            LET before == View(others, proposing)
                after  == View(others, proposing)'
            IN  /\ Permits(before, claim) /\ ~ Permits(after, claim) =>
                      \/ revisions' # revisions
                      \/ claim = NoBinding /\ others # {} /\ state' = "agreed"
                /\ claim \in {revisions[i] : i \in 1 .. Len(revisions) - 1}' =>
                 Contradicts(after, claim)
                /\ revisions # <<>> /\ ~ proposing => Contradicts(after, NoBinding) ]_vars
  BY ObservationStep
<1> QED
  BY <1>1, Invariant, PTL DEF Spec, ObservationIsOneWay
--------------------------------------------------------------------------------
(***************************************************************************)
(* The audit log.                                                          *)
(***************************************************************************)

\* The records on the edge are records, and the log holds two counters at most.
LogTypes ==
    /\ issued \subseteq Verification
    /\ counters \in Seq(Participants)
    /\ Len(counters) <= 2

\* What the log says last is what the engine still knows: the work under review
\* and the name that may not counter again.
LogIsCurrent ==
    /\ pending_submission # None =>
           last_work = [submission |-> pending_submission, by |-> pending_submitter]
    /\ counters # <<>> => counters[Len(counters)] = last_counter_by

\* The engine's invariant, which the guards rest on, and the log beside it.
AuditInv ==
    /\ IInv
    /\ LogTypes
    /\ LogIsCurrent
    /\ CountersAlternate
    /\ SettledOnReviewedWork

LEMMA AuditInitInv == AuditInit => AuditInv
<1> SUFFICES ASSUME AuditInit PROVE AuditInv
  OBVIOUS
<1>1. IInv
  BY InitInv DEF AuditInit
<1>2. LogTypes /\ LogIsCurrent /\ CountersAlternate
  BY DEF AuditInit, Init, LogTypes, LogIsCurrent, CountersAlternate
<1>3. SettledOnReviewedWork
  BY DEF AuditInit, Init, SettledOnReviewedWork
<1> QED
  BY <1>1, <1>2, <1>3 DEF AuditInv

\* A record that passes apply_verification names the revision in force, however
\* late it arrives: it is one of the records the engine's Next lets through.
LEMMA DeliveredMatches ==
    ASSUME IInv, NEW record \in Verification, ApplyVerification(record)
    PROVE  record \in MatchingRecords /\ record.against_revision = frozen_digest
<1>1. /\ pending_submission # None
      /\ record.against_revision = pending_submission.against_revision
      /\ Valid(record) /\ state = "verifying"
  BY DEF ApplyVerification, Decide
<1>2. record.against_revision = frozen_digest
  BY <1>1 DEF IInv, PendingAnswersCurrentRevision
<1>3. revisions # <<>> /\ revisions \in Seq(Revision)
  BY <1>1 DEF IInv, TypeOK, RevisionsAccountedFor, Frozen
<1>4. Len(revisions) \in DOMAIN revisions
  BY <1>3
<1>5. record.against_revision \in {revisions[i] : i \in DOMAIN revisions}
  BY <1>2, <1>3, <1>4 DEF frozen_digest
<1>6. record \in [ verifier : Participants,
                   against_revision : {revisions[i] : i \in DOMAIN revisions},
                   artifacts : SUBSET Artifacts,
                   passed : BOOLEAN, failed : BOOLEAN, verdict : Verdict ]
  BY <1>5 DEF Verification
<1> QED
  BY <1>1, <1>2, <1>3, <1>6 DEF MatchingRecords

\* Watching changes nothing: every step of the audited engine is one of its own.
LEMMA AuditStepsAreEngineSteps ==
    ASSUME AuditInv, [AuditNext]_avars
    PROVE  [Next]_vars
<1>1. CASE \E by \in Participants :
               AuditCounter(by) \/ AuditPropose(by) \/ AuditDecision(by)
  BY <1>1 DEF AuditCounter, AuditPropose, AuditDecision, Next
<1>2. CASE \E by \in Participants, artifacts \in SUBSET Artifacts : AuditSubmit(by, artifacts)
  BY <1>2 DEF AuditSubmit, Next
<1>3. CASE \E by \in Participants, verdict \in Verdict : IssueRecord(by, verdict)
  BY <1>3 DEF IssueRecord
<1>4. CASE DeliverRecord
  <2>1. PICK record \in issued : ApplyVerification(record)
    BY <1>4 DEF DeliverRecord
  <2>2. record \in Verification
    BY DEF AuditInv, LogTypes
  <2>3. record \in MatchingRecords
    BY <2>1, <2>2, DeliveredMatches DEF AuditInv
  <2> QED
    BY <2>1, <2>3 DEF Next
<1>5. CASE Unlogged
  BY <1>5 DEF Unlogged, Next
<1>6. CASE UNCHANGED avars
  BY <1>6 DEF avars
<1> QED
  BY <1>1, <1>2, <1>3, <1>4, <1>5, <1>6 DEF AuditNext

LEMMA AuditKeepsEngine ==
    ASSUME AuditInv, [AuditNext]_avars
    PROVE  IInv'
BY AuditStepsAreEngineSteps, StepInv DEF AuditInv

\* One more counter, of which the log keeps the last two.
LEMMA LoggedCounter ==
    ASSUME NEW s \in Seq(Participants), Len(s) <= 2, NEW by \in Participants,
           NEW t, t = LastTwo(Append(s, by))
    PROVE  /\ t \in Seq(Participants) /\ Len(t) \in 1 .. 2
           /\ t[Len(t)] = by
           /\ Len(t) = 2 => s # <<>> /\ t[1] = s[Len(s)]
<1> DEFINE a == Append(s, by)
<1>1. /\ a \in Seq(Participants) /\ Len(a) = Len(s) + 1 /\ Len(s) \in Nat
      /\ a[Len(s) + 1] = by /\ \A i \in 1 .. Len(s) : a[i] = s[i]
  OBVIOUS
<1>2. CASE Len(s) = 2
  <2>1. t = Tail(a)
    BY <1>1, <1>2 DEF LastTwo
  <2>2. /\ Tail(a) \in Seq(Participants) /\ Len(Tail(a)) = 2
        /\ Tail(a)[1] = a[2] /\ Tail(a)[2] = a[3]
    <3> HIDE DEF a
    <3>1. Len(a) = 3 /\ a # <<>> /\ a \in Seq(Participants)
      BY <1>1, <1>2
    <3>2. /\ Tail(a) \in Seq(Participants) /\ Len(Tail(a)) = Len(a) - 1
          /\ \A i \in 1 .. Len(Tail(a)) : Tail(a)[i] = a[i + 1]
      BY <3>1, HeadTailProperties
    <3>3. Len(Tail(a)) = 2
      BY <3>1, <3>2
    <3>4. 1 \in 1 .. 2 /\ 2 \in 1 .. 2 /\ 1 + 1 = 2 /\ 2 + 1 = 3
      OBVIOUS
    <3>5. Tail(a)[1] = a[2] /\ Tail(a)[2] = a[3]
      BY <3>2, <3>3, <3>4
    <3> QED
      BY <3>2, <3>3, <3>5
  <2> QED
    BY <1>1, <1>2, <2>1, <2>2
<1>3. CASE Len(s) # 2
  <2>1. Len(s) \in 0 .. 1 /\ ~ (Len(a) > 2)
    <3>1. \A m, n \in Nat : m <= 2 /\ m # 2 /\ n = m + 1 => m \in 0 .. 1 /\ ~ (n > 2)
      OBVIOUS
    <3>2. Len(s) <= 2 /\ Len(s) \in Nat /\ Len(a) \in Nat
      BY <1>1
    <3> QED
      BY <1>1, <1>3, <3>1, <3>2
  <2>2. t = a
    BY <2>1 DEF LastTwo
  <2> HIDE DEF a
  <2>3. /\ Len(t) \in 1 .. 2 /\ t[Len(t)] = by
        /\ Len(t) = 2 => s # <<>> /\ t[1] = s[Len(s)]
    BY <1>1, <2>1, <2>2
  <2> QED
    BY <1>1, <2>2, <2>3
<1> QED
  BY <1>2, <1>3

\* A step that leaves the log, the work under review and the last counter alone.
LEMMA LogUntouched ==
    ASSUME AuditInv, UNCHANGED <<issued, last_work, counters, last_counter_by>>,
           \/ UNCHANGED <<pending_submission, pending_submitter>>
           \/ pending_submission' = None
    PROVE  LogTypes' /\ LogIsCurrent' /\ CountersAlternate'
BY DEF AuditInv, LogTypes, LogIsCurrent, CountersAlternate

\* A contract that neither settles now nor gains a revision or other work after.
LEMMA NotSettling ==
    ASSUME AuditInv, issued \subseteq issued',
           \/ state' # "settled"
           \/ UNCHANGED <<state, revisions, last_work>>
    PROVE  SettledOnReviewedWork'
<1> SUFFICES ASSUME state' = "settled", UNCHANGED <<state, revisions, last_work>>
             PROVE  SettledOnReviewedWork'
  BY DEF SettledOnReviewedWork
<1>1. PICK record \in issued :
          /\ record.verdict = "accept" /\ record.artifacts # {}
          /\ record.verifier # last_work.by
          /\ record.artifacts = last_work.submission.artifacts
          /\ record.against_revision = frozen_digest
  BY DEF AuditInv, SettledOnReviewedWork
<1>2. record \in issued' /\ frozen_digest' = frozen_digest
  BY DEF frozen_digest
<1> QED
  BY <1>1, <1>2 DEF SettledOnReviewedWork

LEMMA AuditCounterStep ==
    ASSUME AuditInv, NEW by \in Participants, AuditCounter(by)
    PROVE  LogTypes' /\ LogIsCurrent' /\ CountersAlternate' /\ SettledOnReviewedWork'
<1>1. /\ last_counter_by # by /\ last_counter_by' = by
      /\ counters' = LastTwo(Append(counters, by))
      /\ UNCHANGED <<issued, last_work, work>>
      /\ state' # "settled"
  BY DEF AuditCounter, Counter, MayCounter, Exhausted
<1>2. /\ counters' \in Seq(Participants) /\ Len(counters') \in 1 .. 2
      /\ counters'[Len(counters')] = by
      /\ Len(counters') = 2 => counters # <<>> /\ counters'[1] = counters[Len(counters)]
  BY <1>1, LoggedCounter DEF AuditInv, LogTypes
<1>3. LogTypes'
  BY <1>1, <1>2 DEF AuditInv, LogTypes
<1>4. LogIsCurrent'
  BY <1>1, <1>2 DEF AuditInv, LogIsCurrent, work
<1>5. CountersAlternate'
  <2> SUFFICES ASSUME NEW i \in 1 .. Len(counters') - 1
               PROVE  counters'[i] # counters'[i + 1]
    BY DEF CountersAlternate
  <2>1. Len(counters') = 2 /\ i = 1
    BY <1>2
  <2>2. counters'[1] = last_counter_by
    BY <1>2, <2>1 DEF AuditInv, LogIsCurrent
  <2> QED
    BY <1>1, <1>2, <2>1, <2>2
<1>6. SettledOnReviewedWork'
  BY <1>1, NotSettling
<1> QED
  BY <1>3, <1>4, <1>5, <1>6

\* An amendment opens a negotiation of its own.
LEMMA AuditProposeStep ==
    ASSUME AuditInv, NEW by \in Participants, AuditPropose(by)
    PROVE  LogTypes' /\ LogIsCurrent' /\ CountersAlternate' /\ SettledOnReviewedWork'
<1>1. counters' = <<>> /\ UNCHANGED <<issued, last_work, work>> /\ state' # "settled"
  BY DEF AuditPropose, ProposeAmendment
<1>2. LogTypes' /\ LogIsCurrent' /\ CountersAlternate'
  BY <1>1 DEF AuditInv, LogTypes, LogIsCurrent, CountersAlternate, work
<1> QED
  BY <1>1, <1>2, NotSettling

LEMMA AuditDecisionStep ==
    ASSUME AuditInv, NEW by \in Participants, AuditDecision(by)
    PROVE  LogTypes' /\ LogIsCurrent' /\ CountersAlternate' /\ SettledOnReviewedWork'
<1>1. UNCHANGED <<issued, last_work, counters, last_counter_by, work>> /\ state' # "settled"
  BY DEF AuditDecision, RefuseAmendment, AcceptAmendment
<1> QED
  BY <1>1, LogUntouched, NotSettling DEF work

LEMMA AuditSubmitStep ==
    ASSUME AuditInv, NEW by \in Participants, NEW artifacts \in SUBSET Artifacts,
           AuditSubmit(by, artifacts)
    PROVE  LogTypes' /\ LogIsCurrent' /\ CountersAlternate' /\ SettledOnReviewedWork'
<1>1. /\ pending_submitter' = by
      /\ last_work' = [submission |-> pending_submission', by |-> by]
      /\ UNCHANGED <<issued, counters, last_counter_by>> /\ state' # "settled"
  BY DEF AuditSubmit, Submit, loop
<1>2. LogTypes' /\ LogIsCurrent' /\ CountersAlternate'
  BY <1>1 DEF AuditInv, LogTypes, LogIsCurrent, CountersAlternate
<1> QED
  BY <1>1, <1>2, NotSettling

\* A review puts a record on the edge while the work it judges is pending.
LEMMA IssueRecordStep ==
    ASSUME AuditInv, NEW by \in Participants, NEW verdict \in Verdict,
           IssueRecord(by, verdict)
    PROVE  LogTypes' /\ LogIsCurrent' /\ CountersAlternate' /\ SettledOnReviewedWork'
<1> DEFINE record == [ verifier |-> by,
                       against_revision |-> pending_submission.against_revision,
                       artifacts |-> pending_submission.artifacts,
                       passed |-> verdict = "accept", failed |-> verdict # "accept",
                       verdict |-> verdict ]
<1>1. /\ state = "verifying" /\ issued' = issued \cup {record}
      /\ UNCHANGED <<vars, last_work, counters>>
  BY DEF IssueRecord
<1>2. pending_submission \in Submission
  BY <1>1 DEF AuditInv, IInv, TypeOK, PendingAnswersCurrentRevision
<1>3. record \in Verification
  BY <1>2 DEF Verification, Submission
<1> HIDE DEF record
<1>4. UNCHANGED <<state, revisions, pending_submission, pending_submitter, last_counter_by>>
  BY <1>1 DEF vars, work, loop
<1>5. LogTypes' /\ LogIsCurrent' /\ CountersAlternate'
  BY <1>1, <1>3, <1>4 DEF AuditInv, LogTypes, LogIsCurrent, CountersAlternate
<1> QED
  BY <1>1, <1>4, <1>5, NotSettling

\* The step that settles: the record delivered is the one the contract stands on.
LEMMA DeliverRecordStep ==
    ASSUME AuditInv, DeliverRecord
    PROVE  LogTypes' /\ LogIsCurrent' /\ CountersAlternate' /\ SettledOnReviewedWork'
<1>1. PICK record \in issued : ApplyVerification(record) /\ UNCHANGED audit
  BY DEF DeliverRecord
<1>2. record \in Verification
  BY DEF AuditInv, LogTypes
<1>3. /\ pending_submission # None /\ Valid(record)
      /\ record.verifier # pending_submitter
      /\ record.artifacts = pending_submission.artifacts
  BY <1>1 DEF ApplyVerification, Independent
<1>4. /\ pending_submission' = None
      /\ UNCHANGED <<revisions, last_counter_by, issued, last_work, counters>>
      /\ state' = "settled" => record.verdict = "accept"
  BY <1>1 DEF ApplyVerification, Decide, ReworkOrReject, loop, audit
<1>5. record.against_revision = frozen_digest
  BY <1>1, <1>2, DeliveredMatches DEF AuditInv
<1>6. last_work = [submission |-> pending_submission, by |-> pending_submitter]
  BY <1>3 DEF AuditInv, LogIsCurrent
<1>7. SettledOnReviewedWork'
  <2> SUFFICES ASSUME state' = "settled"
               PROVE  /\ record \in issued'
                      /\ record.verdict = "accept" /\ record.artifacts # {}
                      /\ record.verifier # last_work'.by
                      /\ record.artifacts = last_work'.submission.artifacts
                      /\ record.against_revision = frozen_digest'
    BY DEF SettledOnReviewedWork
  <2>1. record.verdict = "accept" /\ record.artifacts # {}
    BY <1>3, <1>4 DEF Valid
  <2>2. frozen_digest' = frozen_digest
    BY <1>4 DEF frozen_digest
  <2> QED
    BY <1>3, <1>4, <1>5, <1>6, <2>1, <2>2
<1>8. LogTypes' /\ LogIsCurrent' /\ CountersAlternate'
  BY <1>4, LogUntouched
<1> QED
  BY <1>7, <1>8

LEMMA UnloggedStep ==
    ASSUME AuditInv, Unlogged \/ UNCHANGED avars
    PROVE  LogTypes' /\ LogIsCurrent' /\ CountersAlternate' /\ SettledOnReviewedWork'
<1>1. CASE Unlogged
  <2>1. UNCHANGED <<issued, last_work, counters, last_counter_by, work>> /\ state' # "settled"
    <3>1. UNCHANGED audit
      BY <1>1 DEF Unlogged
    <3>2. UNCHANGED <<last_counter_by, work>>
      BY <1>1 DEF Unlogged, Withdraw, FailAmendmentDecision, Agree, Freeze,
                  ExpireNegotiation, loop
    <3>3. state' # "settled"
      BY <1>1 DEF Unlogged, Withdraw, FailAmendmentDecision, Agree, Freeze,
                  ExpireNegotiation, Exhausted
    <3> QED
      BY <3>1, <3>2, <3>3 DEF audit
  <2> QED
    BY <2>1, LogUntouched, NotSettling DEF work
<1>2. CASE UNCHANGED avars
  <2>1. /\ UNCHANGED <<issued, last_work, counters, last_counter_by, state, revisions>>
        /\ UNCHANGED <<pending_submission, pending_submitter>>
    BY <1>2 DEF avars, audit, vars, loop, work
  <2> QED
    BY <2>1, LogUntouched, NotSettling
<1> QED
  BY <1>1, <1>2

LEMMA AuditStepInv == AuditInv /\ [AuditNext]_avars => AuditInv'
<1> SUFFICES ASSUME AuditInv, [AuditNext]_avars PROVE AuditInv'
  OBVIOUS
<1>1. IInv'
  BY AuditKeepsEngine
<1>2. LogTypes' /\ LogIsCurrent' /\ CountersAlternate' /\ SettledOnReviewedWork'
  <2>1. CASE \E by \in Participants :
                 AuditCounter(by) \/ AuditPropose(by) \/ AuditDecision(by)
    BY <2>1, AuditCounterStep, AuditProposeStep, AuditDecisionStep
  <2>2. CASE \E by \in Participants, artifacts \in SUBSET Artifacts : AuditSubmit(by, artifacts)
    BY <2>2, AuditSubmitStep
  <2>3. CASE \E by \in Participants, verdict \in Verdict : IssueRecord(by, verdict)
    BY <2>3, IssueRecordStep
  <2>4. CASE DeliverRecord
    BY <2>4, DeliverRecordStep
  <2>5. CASE Unlogged \/ UNCHANGED avars
    BY <2>5, UnloggedStep
  <2> QED
    BY <2>1, <2>2, <2>3, <2>4, <2>5 DEF AuditNext
<1> QED
  BY <1>1, <1>2 DEF AuditInv

\* Whatever the edge does to the records, the engine, its log and what the log
\* promises hold together.
THEOREM AuditInvariant == AuditSpec => []AuditInv
<1>1. AuditInit => AuditInv
  BY AuditInitInv
<1>2. AuditInv /\ [AuditNext]_avars => AuditInv'
  BY AuditStepInv
<1> QED
  BY <1>1, <1>2, PTL DEF AuditSpec

\* A settled contract stands on an independent, accepting record of the last work.
THEOREM SettlementIsReviewed == AuditSpec => []SettledOnReviewedWork
<1>1. AuditInv => SettledOnReviewedWork
  BY DEF AuditInv
<1> QED
  BY <1>1, AuditInvariant, PTL

\* Nobody counters twice running, over whole negotiations.
THEOREM CountersTakeTurns == AuditSpec => []CountersAlternate
<1>1. AuditInv => CountersAlternate
  BY DEF AuditInv
<1> QED
  BY <1>1, AuditInvariant, PTL

\* An audited run is a run of the engine, so all that is proved of the engine
\* holds of it; the edge adds records, never a verdict of its own.
THEOREM AuditOfEngine == AuditSpec => Spec
<1>1. AuditInit => Init
  BY DEF AuditInit
<1>2. AuditInv /\ [AuditNext]_avars => [Next]_vars
  BY AuditStepsAreEngineSteps
<1> QED
  BY <1>1, <1>2, AuditInvariant, PTL DEF AuditSpec, Spec

\* While work is under review its submitter is on record.
SubmitterKnown == pending_submission # None => pending_submitter \in Participants

\* Whoever did not submit the work under review can still give each verdict its
\* artifacts allow: a valid record of it names a revision the contract has, answers
\* what is pending and would not be refused as the submitter's own.
WorkCanBeJudged ==
    state = "verifying" =>
        \A verdict \in Verdict :
            (verdict = "accept" => pending_submission.artifacts # {}) =>
                \E record \in MatchingRecords :
                    /\ record.verdict = verdict
                    /\ Independent(record.verifier)
                    /\ record.against_revision = pending_submission.against_revision
                    /\ record.artifacts = pending_submission.artifacts

LEMMA SubmitterStep ==
    ASSUME SubmitterKnown, [AuditNext]_avars
    PROVE  SubmitterKnown'
<1>1. CASE \E by \in Participants :
               AuditCounter(by) \/ AuditPropose(by) \/ AuditDecision(by)
  <2>1. UNCHANGED <<pending_submission, pending_submitter>>
    BY <1>1 DEF AuditCounter, AuditPropose, AuditDecision, Counter, ProposeAmendment,
                RefuseAmendment, AcceptAmendment, work
  <2> QED
    BY <2>1 DEF SubmitterKnown
<1>2. CASE \E by \in Participants, artifacts \in SUBSET Artifacts : AuditSubmit(by, artifacts)
  BY <1>2 DEF AuditSubmit, Submit, SubmitterKnown
<1>3. CASE \E by \in Participants, verdict \in Verdict : IssueRecord(by, verdict)
  BY <1>3 DEF IssueRecord, vars, work, SubmitterKnown
<1>4. CASE DeliverRecord
  BY <1>4 DEF DeliverRecord, ApplyVerification, Decide, SubmitterKnown
<1>5. CASE Unlogged
  <2>1. UNCHANGED <<pending_submission, pending_submitter>>
    BY <1>5 DEF Unlogged, Withdraw, FailAmendmentDecision, Agree, Freeze, ExpireNegotiation, work
  <2> QED
    BY <2>1 DEF SubmitterKnown
<1>6. CASE UNCHANGED avars
  BY <1>6 DEF avars, vars, work, SubmitterKnown
<1> QED
  BY <1>1, <1>2, <1>3, <1>4, <1>5, <1>6 DEF AuditNext

\* A pair of participants leaves somebody who did not submit.
LEMMA SomebodyElse ==
    ASSUME NEW p \in Participants
    PROVE  \E q \in Participants : q # p
<1> SUFFICES ASSUME \A q \in Participants : q = p PROVE FALSE
  OBVIOUS
<1>1. Participants = {p}
  OBVIOUS
<1> QED
  BY <1>1, ParticipantsAssumption, FS_Singleton

LEMMA Judgeable ==
    ASSUME IInv, SubmitterKnown
    PROVE  WorkCanBeJudged
<1> SUFFICES ASSUME state = "verifying", NEW verdict \in Verdict,
                    verdict = "accept" => pending_submission.artifacts # {}
             PROVE  \E record \in MatchingRecords :
                        /\ record.verdict = verdict
                        /\ Independent(record.verifier)
                        /\ record.against_revision = pending_submission.against_revision
                        /\ record.artifacts = pending_submission.artifacts
  BY DEF WorkCanBeJudged
<1>1. /\ pending_submission # None /\ pending_submission \in Submission
      /\ pending_submission.against_revision = frozen_digest
  BY DEF IInv, PendingAnswersCurrentRevision, TypeOK
<1>2. revisions # <<>> /\ revisions \in Seq(Revision)
  BY DEF IInv, TypeOK, RevisionsAccountedFor, Frozen
<1>3. pending_submitter \in Participants /\ pending_submitter # None
  BY <1>1, NoneAssumption DEF SubmitterKnown
<1>4. PICK q \in Participants : q # pending_submitter
  BY <1>3, SomebodyElse
<1> DEFINE record == [ verifier |-> q,
                       against_revision |-> pending_submission.against_revision,
                       artifacts |-> pending_submission.artifacts,
                       passed |-> TRUE, failed |-> FALSE, verdict |-> verdict ]
<1>5. frozen_digest \in {revisions[i] : i \in DOMAIN revisions}
  <2>1. Len(revisions) \in DOMAIN revisions
    BY <1>2
  <2> QED
    BY <1>2, <2>1 DEF frozen_digest
<1>6. pending_submission.artifacts \in SUBSET Artifacts
  BY <1>1 DEF Submission
<1>7. record \in [ verifier : Participants,
                   against_revision : {revisions[i] : i \in DOMAIN revisions},
                   artifacts : SUBSET Artifacts,
                   passed : BOOLEAN, failed : BOOLEAN, verdict : Verdict ]
  BY <1>1, <1>5, <1>6
<1>8. Valid(record)
  BY DEF Valid
<1>9. record \in MatchingRecords
  BY <1>2, <1>7, <1>8 DEF MatchingRecords
<1>10. /\ record.verdict = verdict /\ record.verifier = q
       /\ record.against_revision = pending_submission.against_revision
       /\ record.artifacts = pending_submission.artifacts
  OBVIOUS
<1>11. Independent(record.verifier)
  BY <1>3, <1>4, <1>10 DEF Independent
<1> QED
  BY <1>9, <1>10, <1>11

\* What NeverStuck rests on where records are validated and snapshots are current:
\* work under review never waits for a verdict that nobody can give
\* (apply_verification, IndependentReviewerRequired).
THEOREM ReviewIsPossible == AuditSpec => []WorkCanBeJudged
<1>1. AuditInit => SubmitterKnown
  BY DEF AuditInit, Init, SubmitterKnown
<1>2. SubmitterKnown /\ [AuditNext]_avars => SubmitterKnown'
  BY SubmitterStep
<1>3. AuditInv /\ SubmitterKnown => WorkCanBeJudged
  BY Judgeable DEF AuditInv
<1> QED
  BY <1>1, <1>2, <1>3, AuditInvariant, PTL DEF AuditSpec
================================================================================
