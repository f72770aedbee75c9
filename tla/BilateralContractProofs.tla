----------------------- MODULE BilateralContractProofs -----------------------
(***************************************************************************)
(* Proofs about BilateralContract, for every pair of participants, every   *)
(* set of terms and artifacts, and all limits.                             *)
(***************************************************************************)
EXTENDS BilateralContract, FiniteSetTheorems, SequenceTheorems, TLAPS

\* The inductive invariant: no part of it is inductive alone.
IInv ==
    /\ TypeOK
    /\ RevisionsAccountedFor
    /\ OpenAmendmentFits
    /\ PendingAnswersCurrentRevision
    /\ UnanimityIsAnswered
    /\ BoundsAreExact

\* The engine compares the number of names on record with 2; for sets of
\* participants that is comparing the set with the pair itself.
LEMMA Pairs ==
    ASSUME NEW S, S \subseteq Participants
    PROVE  /\ Cardinality(S) \in Nat
           /\ Cardinality(S) <= 2
           /\ Cardinality(S) = 2 <=> S = Participants
           /\ Cardinality({}) = 0
<1>1. IsFiniteSet(Participants) /\ Cardinality(Participants) = 2
  BY ParticipantsAssumption
<1>2. IsFiniteSet(S) /\ Cardinality(S) <= 2 /\ (Cardinality(S) = 2 => S = Participants)
  BY <1>1, FS_Subset
<1>3. Cardinality(S) \in Nat
  BY <1>2, FS_CardinalityType
<1>4. Cardinality({}) = 0
  BY FS_EmptySet
<1> QED
  BY <1>1, <1>2, <1>3, <1>4

\* What pushing a revision does to the list of revisions.
LEMMA Pushed ==
    ASSUME NEW s \in Seq(Revision), NEW terms \in Terms,
           NEW t, t = Append(s, [number |-> Len(s) + 1, content |-> terms])
    PROVE  /\ t \in Seq(Revision)
           /\ Len(s) \in Nat /\ Len(t) = Len(s) + 1
           /\ \A i \in DOMAIN s : t[i] = s[i]
           /\ t[Len(s) + 1] = [number |-> Len(s) + 1, content |-> terms]
           /\ DOMAIN s = 1 .. Len(s) /\ DOMAIN t = 1 .. (Len(s) + 1)
           /\ t # <<>>
<1> DEFINE r == [number |-> Len(s) + 1, content |-> terms]
<1>1. Len(s) \in Nat
  OBVIOUS
<1>2. r \in Revision
  BY <1>1 DEF Revision
<1> HIDE DEF r
<1>3. t = Append(s, r)
  BY DEF r
<1>4. /\ t \in Seq(Revision) /\ Len(t) = Len(s) + 1
      /\ \A i \in 1 .. Len(s) : t[i] = s[i]
      /\ t[Len(s) + 1] = r
  BY <1>2, <1>3
<1>5. DOMAIN s = 1 .. Len(s) /\ DOMAIN t = 1 .. (Len(s) + 1)
  BY <1>1, <1>4
<1>6. t # <<>>
  BY <1>1, <1>4
<1> QED
  BY <1>1, <1>4, <1>5, <1>6 DEF r

\* The last revision is a revision.
LEMMA FrozenDigestType ==
    ASSUME TypeOK, revisions # <<>>
    PROVE  frozen_digest \in Revision
<1>1. revisions \in Seq(Revision) /\ revisions # <<>>
  BY DEF TypeOK
<1>2. Len(revisions) \in Nat /\ Len(revisions) > 0
  BY <1>1
<1>3. revisions[Len(revisions)] \in Revision
  BY <1>1, <1>2
<1> QED
  BY <1>3 DEF frozen_digest

\* What `propose` returns satisfies the invariant.
LEMMA InitInv == Init => IInv
<1> SUFFICES ASSUME Init PROVE IInv
  OBVIOUS
<1>1. Cardinality({}) = 0
  BY FS_EmptySet
<1>2. TypeOK
  <2>1. revisions \in Seq(Revision)
    BY DEF Init
  <2>2. rework_scope \in BOOLEAN
    BY DEF Init
  <2> QED
    BY <2>1, <2>2 DEF Init, TypeOK, ContractState, PreFreeze
<1>3. RevisionsAccountedFor
  BY DEF Init, RevisionsAccountedFor, Frozen
<1>4. OpenAmendmentFits /\ PendingAnswersCurrentRevision /\ UnanimityIsAnswered
  BY <1>1, LimitsAssumption
     DEF Init, OpenAmendmentFits, PendingAnswersCurrentRevision, UnanimityIsAnswered
<1>5. BoundsAreExact
  BY LimitsAssumption DEF Init, BoundsAreExact
<1> QED
  BY <1>2, <1>3, <1>4, <1>5 DEF IInv

--------------------------------------------------------------------------------
(***************************************************************************)
(* Every action preserves the invariant.                                   *)
(***************************************************************************)

\* A step that freezes nothing keeps the account of the revisions, provided it
\* does not confuse the states before and after the first freeze.
LEMMA RevisionsKept ==
    ASSUME RevisionsAccountedFor, UNCHANGED <<revisions, amendments>>,
           state' \in PreFreeze \cup {"withdrawn"} => revisions = <<>>,
           state' \in Frozen => revisions # <<>>
    PROVE  RevisionsAccountedFor'
<1>1. revisions' = revisions /\ amendments' = amendments
  OBVIOUS
<1>2. \A i \in DOMAIN revisions' : revisions'[i].number = i
  BY <1>1 DEF RevisionsAccountedFor
<1> QED
  BY <1>1, <1>2 DEF RevisionsAccountedFor, PreFreeze, Frozen

\* An exhausted negotiation lands in `executing` only if a revision is in force.
LEMMA CounterStep ==
    ASSUME IInv, NEW by \in Participants, Counter(by)
    PROVE  IInv'
<1> USE DEF IInv
<1>1. Cardinality({}) = 0
  BY FS_EmptySet
<1>2. state' \in {"countered", "amending", "executing", "noagreement"}
  BY DEF Counter, Exhausted
<1>3. state' \in {"amending", "executing"} => state = "amending"
  BY DEF Counter, Exhausted
<1>4. amendment_participants' \subseteq Participants
  BY DEF TypeOK, Counter
<1>5. TypeOK'
  BY <1>2, <1>4 DEF TypeOK, Counter, ClearVotes, work, ContractState, PreFreeze, Frozen, Terminal, MayCounter, NextRound, Spent
<1>6. RevisionsAccountedFor'
  <2>1. UNCHANGED <<revisions, amendments>>
    BY DEF Counter
  <2>2. state' \in PreFreeze \cup {"withdrawn"} => revisions = <<>>
    BY <1>2 DEF RevisionsAccountedFor, Counter, Exhausted, PreFreeze, MayCounter, NextRound, Spent
  <2>3. state' \in Frozen => revisions # <<>>
    BY <1>2, <1>3 DEF RevisionsAccountedFor, Frozen
  <2> QED
    BY <2>1, <2>2, <2>3, RevisionsKept
<1>7. OpenAmendmentFits'
  BY <1>3 DEF OpenAmendmentFits, Counter, work
<1>8. PendingAnswersCurrentRevision'
  BY <1>2 DEF PendingAnswersCurrentRevision, Counter, work, frozen_digest, MayCounter, NextRound, Spent
<1>9. UnanimityIsAnswered'
  BY <1>1, <1>2 DEF UnanimityIsAnswered, Counter, ClearVotes
<1>10. rounds < MaxRounds
  BY DEF BoundsAreExact, Counter, PreFreeze, MayCounter, NextRound, Spent
<1>11. BoundsAreExact'
  <2>1. rounds' <= MaxRounds
    BY <1>10, LimitsAssumption DEF TypeOK, Counter, MayCounter, NextRound, Spent
  <2>2. state' \in {"countered", "amending"} => rounds' < MaxRounds
    BY <1>10, LimitsAssumption DEF TypeOK, Counter, Exhausted, MayCounter, NextRound, Spent
  <2>3. UNCHANGED <<reworks, rework_scope>>
    BY DEF Counter, work
  <2> QED
    BY <1>2, <2>1, <2>2, <2>3 DEF BoundsAreExact, PreFreeze
<1> QED
  BY <1>5, <1>6, <1>7, <1>8, <1>9, <1>11

\* What recording one more vote does to the set of names on record.
LEMMA VotersWithFacts ==
    ASSUME TypeOK, NEW by \in Participants
    PROVE  /\ VotersWith(by) \subseteq Participants
           /\ by \in VotersWith(by)
           /\ Cardinality(VotersWith(by)) \in Nat
           /\ Cardinality(VotersWith(by)) <= 2
           /\ Cardinality(VotersWith(by)) = 2 <=> VotersWith(by) = Participants
<1>1. VotersWith(by) \subseteq Participants /\ by \in VotersWith(by)
  BY DEF TypeOK, VotersWith
<1> HIDE DEF VotersWith
<1> QED
  BY <1>1, Pairs

LEMMA AgreeStep ==
    ASSUME IInv, NEW by \in Participants, NEW terms \in Terms, Agree(by, terms)
    PROVE  IInv'
<1> USE DEF IInv
<1>1. /\ agreed_by' \subseteq Participants
      /\ Cardinality(agreed_by') \in Nat /\ Cardinality(agreed_by') <= 2
      /\ Cardinality(agreed_by') = 2 <=> agreed_by' = Participants
  BY VotersWithFacts DEF Agree
<1>2. state' \in {"agreed", "proposed"} /\ state \in PreFreeze
  BY DEF Agree
<1>3. state' = "agreed" <=> Cardinality(agreed_by') = 2
  BY DEF Agree
<1>4. TypeOK'
  BY <1>1, <1>2 DEF TypeOK, Agree, work, loop, ContractState, PreFreeze
<1>5. RevisionsAccountedFor'
  <2>1. UNCHANGED <<revisions, amendments>>
    BY DEF Agree
  <2> QED
    BY <1>2, <2>1, RevisionsKept DEF RevisionsAccountedFor, PreFreeze, Frozen
<1>6. OpenAmendmentFits'
  BY <1>2 DEF OpenAmendmentFits, Agree, work, loop
<1>7. PendingAnswersCurrentRevision'
  BY <1>2 DEF PendingAnswersCurrentRevision, Agree, work, loop, frozen_digest, PreFreeze
<1>8. UnanimityIsAnswered'
  BY <1>1, <1>2, <1>3 DEF UnanimityIsAnswered, Frozen
<1>9. BoundsAreExact'
  BY <1>2 DEF BoundsAreExact, Agree, work, loop, PreFreeze
<1> QED
  BY <1>4, <1>5, <1>6, <1>7, <1>8, <1>9

\* Pushing one revision keeps the numbering.
LEMMA PushedNumbering ==
    ASSUME TypeOK, RevisionsAccountedFor, NEW terms \in Terms, PushRevision(terms)
    PROVE  /\ revisions' \in Seq(Revision) /\ revisions' # <<>>
           /\ Len(revisions) \in Nat /\ Len(revisions') = Len(revisions) + 1
           /\ \A i \in DOMAIN revisions' : revisions'[i].number = i
<1>1. revisions \in Seq(Revision)
  BY DEF TypeOK
<1>2. /\ revisions' \in Seq(Revision) /\ revisions' # <<>>
      /\ Len(revisions) \in Nat /\ Len(revisions') = Len(revisions) + 1
      /\ DOMAIN revisions = 1 .. Len(revisions)
      /\ DOMAIN revisions' = 1 .. (Len(revisions) + 1)
      /\ \A i \in DOMAIN revisions : revisions'[i] = revisions[i]
      /\ revisions'[Len(revisions) + 1]
             = [number |-> Len(revisions) + 1, content |-> terms]
  BY <1>1, Pushed DEF PushRevision
<1>3. ASSUME NEW i \in 1 .. (Len(revisions) + 1)
      PROVE  revisions'[i].number = i
  <2>1. CASE i = Len(revisions) + 1
    BY <1>2, <2>1
  <2>2. CASE i \in 1 .. Len(revisions)
    BY <1>2, <2>2 DEF RevisionsAccountedFor
  <2> QED
    BY <1>2, <2>1, <2>2
<1> QED
  BY <1>2, <1>3

LEMMA FreezeStep ==
    ASSUME IInv, NEW terms \in Terms, Freeze(terms)
    PROVE  IInv'
<1> USE DEF IInv
<1>1. Cardinality({}) = 0
  BY FS_EmptySet
<1>2. /\ revisions' \in Seq(Revision) /\ revisions' # <<>>
      /\ Len(revisions) \in Nat /\ Len(revisions') = Len(revisions) + 1
      /\ \A i \in DOMAIN revisions' : revisions'[i].number = i
  BY PushedNumbering DEF Freeze
<1>3. revisions = <<>> /\ amendments = 0
  BY DEF RevisionsAccountedFor, Freeze, PreFreeze
<1>4. Len(revisions') = 1
  BY <1>2, <1>3
<1>5. TypeOK'
  BY <1>2 DEF TypeOK, Freeze, ClearVotes, work, loop, ContractState, PreFreeze, Frozen
<1>6. RevisionsAccountedFor'
  BY <1>2, <1>3, <1>4 DEF RevisionsAccountedFor, Freeze, work, loop, PreFreeze, Frozen
<1>7. OpenAmendmentFits'
  BY DEF OpenAmendmentFits, Freeze, work, loop
<1>8. PendingAnswersCurrentRevision'
  BY DEF PendingAnswersCurrentRevision, Freeze, work, loop
<1>9. UnanimityIsAnswered'
  BY <1>1 DEF UnanimityIsAnswered, Freeze, ClearVotes
<1>10. BoundsAreExact'
  BY DEF BoundsAreExact, Freeze, work, loop, PreFreeze
<1> QED
  BY <1>5, <1>6, <1>7, <1>8, <1>9, <1>10

LEMMA WithdrawStep ==
    ASSUME IInv, NEW by \in Participants, Withdraw(by)
    PROVE  IInv'
<1> USE DEF IInv
<1>1. state \in PreFreeze /\ state' = "withdrawn"
  BY DEF Withdraw
<1>2. UNCHANGED <<revisions, amendments, votes, work, loop>>
  BY DEF Withdraw
<1>3. TypeOK'
  BY <1>1, <1>2 DEF TypeOK, votes, work, loop, ContractState, Terminal
<1>4. RevisionsAccountedFor'
  BY <1>1, <1>2, RevisionsKept DEF RevisionsAccountedFor, PreFreeze, Frozen
<1>5. OpenAmendmentFits' /\ UnanimityIsAnswered'
  BY <1>1, <1>2 DEF OpenAmendmentFits, UnanimityIsAnswered, Frozen
<1>6. PendingAnswersCurrentRevision'
  BY <1>1, <1>2 DEF PendingAnswersCurrentRevision, work, frozen_digest, PreFreeze
<1>7. BoundsAreExact'
  BY <1>1, <1>2 DEF BoundsAreExact, work, loop, PreFreeze
<1> QED
  BY <1>3, <1>4, <1>5, <1>6, <1>7

LEMMA ExpireStep ==
    ASSUME IInv, ExpireNegotiation
    PROVE  IInv'
<1> USE DEF IInv
<1>1. state \in PreFreeze \cup {"amending"} /\ state' \in {"executing", "noagreement"}
  BY DEF ExpireNegotiation, Exhausted
<1>2. state' = "executing" => state = "amending"
  BY DEF ExpireNegotiation, Exhausted
<1>3. UNCHANGED <<revisions, amendments, votes, work, loop>>
  BY DEF ExpireNegotiation
<1>4. TypeOK'
  BY <1>1, <1>3 DEF TypeOK, votes, work, loop, ContractState, Frozen, Terminal
<1>5. RevisionsAccountedFor'
  BY <1>1, <1>2, <1>3, RevisionsKept DEF RevisionsAccountedFor, PreFreeze, Frozen
<1>6. OpenAmendmentFits'
  BY <1>1, <1>3 DEF OpenAmendmentFits
<1>7. UnanimityIsAnswered'
  BY <1>1, <1>2, <1>3 DEF UnanimityIsAnswered, votes, Frozen
<1>8. PendingAnswersCurrentRevision'
  BY <1>1, <1>3 DEF PendingAnswersCurrentRevision, work, frozen_digest, PreFreeze
<1>9. BoundsAreExact'
  BY <1>1, <1>3 DEF BoundsAreExact, work, loop, PreFreeze
<1> QED
  BY <1>4, <1>5, <1>6, <1>7, <1>8, <1>9

LEMMA SubmitStep ==
    ASSUME IInv, NEW by \in Participants, NEW artifacts \in SUBSET Artifacts,
           Submit(by, artifacts)
    PROVE  IInv'
<1> USE DEF IInv
<1>1. state = "executing" /\ state' = "verifying"
  BY DEF Submit
<1>2. UNCHANGED <<revisions, amendments, votes, rework_scope, reworks, loop>>
  BY DEF Submit
<1>3. revisions # <<>>
  BY <1>1 DEF RevisionsAccountedFor, Frozen
<1>4. pending_submission' = [against_revision |-> frozen_digest, artifacts |-> artifacts]
  BY DEF Submit
<1>5. pending_submission' \in Submission
  BY <1>3, <1>4, FrozenDigestType DEF Submission
<1>6. TypeOK'
  BY <1>1, <1>2, <1>5 DEF TypeOK, Submit, votes, loop, ContractState, Frozen
<1>7. RevisionsAccountedFor'
  BY <1>1, <1>2, <1>3, RevisionsKept DEF PreFreeze
<1>8. OpenAmendmentFits'
  BY <1>1, <1>2 DEF OpenAmendmentFits
<1>9. UnanimityIsAnswered'
  BY <1>1, <1>2 DEF UnanimityIsAnswered, votes, Frozen
<1>10. pending_submission' # None
  BY <1>5, NoneAssumption
<1>11. PendingAnswersCurrentRevision'
  BY <1>1, <1>2, <1>4, <1>10 DEF PendingAnswersCurrentRevision, frozen_digest
<1>12. BoundsAreExact'
  BY <1>1, <1>2 DEF BoundsAreExact, loop, PreFreeze
<1> QED
  BY <1>6, <1>7, <1>8, <1>9, <1>11, <1>12

LEMMA DecideStep ==
    ASSUME IInv, NEW verdict \in Verdict, Decide(verdict)
    PROVE  IInv'
<1> USE DEF IInv
<1>1. state = "verifying" /\ state' \in {"settled", "rejected", "executing"}
  BY DEF Decide, ReworkOrReject
<1>2. UNCHANGED <<revisions, amendments, votes, loop>>
  BY DEF Decide
<1>3. pending_submission' = None /\ pending_submitter' = None
  BY DEF Decide
<1>4. rework_scope' \in BOOLEAN
  BY DEF Decide
<1>5. reworks' \in Nat /\ reworks' <= MaxRework
  BY LimitsAssumption DEF Decide, TypeOK, BoundsAreExact, ReworkOrReject
<1>6. state' = "rejected" /\ rework_scope' => reworks' = MaxRework
  <2>1. CASE verdict = "rework"
    <3>1. state' = "rejected" => reworks' = reworks /\ reworks >= MaxRework
      BY <2>1 DEF Decide, ReworkOrReject
    <3> QED
      BY <1>5, <3>1, LimitsAssumption
  <2>2. CASE verdict # "rework"
    BY <2>2 DEF Decide
  <2> QED
    BY <2>1, <2>2
<1>7. TypeOK'
  BY <1>1, <1>2, <1>3, <1>4, <1>5 DEF TypeOK, votes, loop, ContractState, Frozen
<1>8. RevisionsAccountedFor'
  BY <1>1, <1>2, RevisionsKept DEF RevisionsAccountedFor, PreFreeze, Frozen
<1>9. OpenAmendmentFits'
  BY <1>1, <1>2 DEF OpenAmendmentFits
<1>10. UnanimityIsAnswered'
  BY <1>1, <1>2 DEF UnanimityIsAnswered, votes, Frozen
<1>11. PendingAnswersCurrentRevision'
  BY <1>1, <1>3 DEF PendingAnswersCurrentRevision
<1>12. BoundsAreExact'
  BY <1>1, <1>2, <1>5, <1>6 DEF BoundsAreExact, loop, PreFreeze
<1> QED
  BY <1>7, <1>8, <1>9, <1>10, <1>11, <1>12

\* A verdict reached through a record is a verdict.
LEMMA ApplyVerificationStep ==
    ASSUME IInv, NEW record \in MatchingRecords, ApplyVerification(record)
    PROVE  IInv'
<1>1. record.verdict \in Verdict
  BY DEF MatchingRecords
<1> QED
  BY <1>1, DecideStep DEF ApplyVerification

LEMMA ProposeAmendmentStep ==
    ASSUME IInv, NEW by \in Participants, ProposeAmendment(by)
    PROVE  IInv'
<1> USE DEF IInv
<1>1. Cardinality({}) = 0
  BY FS_EmptySet
<1>2. state = "executing" /\ state' = "amending" /\ amendments < MaxAmendments
  BY DEF ProposeAmendment, MayAmend
<1>3. UNCHANGED <<revisions, amendments, work>>
  BY DEF ProposeAmendment
<1>4. TypeOK'
  BY <1>2, <1>3 DEF TypeOK, ProposeAmendment, ClearVotes, work, ContractState, Frozen
<1>5. RevisionsAccountedFor'
  BY <1>2, <1>3, RevisionsKept DEF RevisionsAccountedFor, PreFreeze, Frozen
<1>6. OpenAmendmentFits'
  BY <1>2, <1>3 DEF OpenAmendmentFits
<1>7. UnanimityIsAnswered'
  BY <1>1, <1>2 DEF UnanimityIsAnswered, ProposeAmendment, ClearVotes
<1>8. PendingAnswersCurrentRevision'
  BY <1>2, <1>3 DEF PendingAnswersCurrentRevision, work
<1>9. BoundsAreExact'
  BY <1>2, <1>3, LimitsAssumption
     DEF BoundsAreExact, ProposeAmendment, work, TypeOK
<1> QED
  BY <1>4, <1>5, <1>6, <1>7, <1>8, <1>9

LEMMA RefuseAmendmentStep ==
    ASSUME IInv, NEW by \in Participants, RefuseAmendment(by)
    PROVE  IInv'
<1> USE DEF IInv
<1>1. Cardinality({}) = 0
  BY FS_EmptySet
<1>2. state = "amending" /\ state' = "executing"
  BY DEF RefuseAmendment
<1>3. UNCHANGED <<revisions, amendments, work, rounds>>
  BY DEF RefuseAmendment
<1>4. TypeOK'
  BY <1>2, <1>3
     DEF TypeOK, RefuseAmendment, TakePart, ClearVotes, work, ContractState, Frozen
<1>5. RevisionsAccountedFor'
  BY <1>2, <1>3, RevisionsKept DEF RevisionsAccountedFor, PreFreeze, Frozen
<1>6. OpenAmendmentFits'
  BY <1>2, <1>3 DEF OpenAmendmentFits
<1>7. UnanimityIsAnswered'
  BY <1>1, <1>2 DEF UnanimityIsAnswered, RefuseAmendment, ClearVotes
<1>8. PendingAnswersCurrentRevision'
  BY <1>2, <1>3 DEF PendingAnswersCurrentRevision, work
<1>9. BoundsAreExact'
  BY <1>2, <1>3 DEF BoundsAreExact, work, PreFreeze
<1> QED
  BY <1>4, <1>5, <1>6, <1>7, <1>8, <1>9

\* The second vote freezes a revision, and there is room for it.
LEMMA AcceptAmendmentStep ==
    ASSUME IInv, NEW by \in Participants, NEW terms \in Terms,
           AcceptAmendment(by, terms)
    PROVE  IInv'
<1> USE DEF IInv
<1>1. Cardinality({}) = 0
  BY FS_EmptySet
<1>2. state = "amending" /\ UNCHANGED <<work, rounds, last_counter_by>>
  BY DEF AcceptAmendment
<1>3. amendment_participants' \subseteq Participants
  BY DEF AcceptAmendment, TakePart, TypeOK
<1>4. /\ amendments < MaxAmendments /\ revisions # <<>>
      /\ amendments = Len(revisions) - 1
  BY <1>2 DEF OpenAmendmentFits, RevisionsAccountedFor, Frozen
<1>5. CASE Cardinality(VotersWith(by)) < 2
  <2>1. UNCHANGED <<state, amendments, revisions>>
    BY <1>5 DEF AcceptAmendment
  <2>2. agreed_by' \subseteq Participants /\ Cardinality(agreed_by') < 2
    BY <1>5, VotersWithFacts DEF AcceptAmendment
  <2>3. TypeOK'
    BY <1>2, <1>3, <1>5, <2>1, <2>2 DEF TypeOK, AcceptAmendment, work
  <2>4. RevisionsAccountedFor'
    BY <1>2, <1>4, <2>1, RevisionsKept DEF PreFreeze
  <2>5. OpenAmendmentFits'
    BY <1>2, <2>1 DEF OpenAmendmentFits
  <2>6. UnanimityIsAnswered'
    BY <1>2, <2>1, <2>2 DEF UnanimityIsAnswered
  <2>7. PendingAnswersCurrentRevision'
    BY <1>2, <2>1 DEF PendingAnswersCurrentRevision, work
  <2>8. BoundsAreExact'
    BY <1>2, <2>1 DEF BoundsAreExact, work
  <2> QED
    BY <2>3, <2>4, <2>5, <2>6, <2>7, <2>8
<1>6. CASE ~ (Cardinality(VotersWith(by)) < 2)
  <2>1. /\ state' = "executing" /\ amendments' = amendments + 1
        /\ PushRevision(terms) /\ agreed_by' = {} /\ agreed_terms_digest' = None
    BY <1>6 DEF AcceptAmendment, ClearVotes
  <2>2. /\ revisions' \in Seq(Revision) /\ revisions' # <<>>
        /\ Len(revisions) \in Nat /\ Len(revisions') = Len(revisions) + 1
        /\ \A i \in DOMAIN revisions' : revisions'[i].number = i
    BY <2>1, PushedNumbering
  <2>3. TypeOK'
    BY <1>2, <1>3, <2>1, <2>2 DEF TypeOK, work, ContractState, Frozen
  <2>4. RevisionsAccountedFor'
    <3>1. amendments' = Len(revisions') - 1
      BY <1>4, <2>1, <2>2
    <3> QED
      BY <2>1, <2>2, <3>1 DEF RevisionsAccountedFor, PreFreeze, Frozen
  <2>5. OpenAmendmentFits'
    BY <1>4, <2>1, LimitsAssumption DEF OpenAmendmentFits, TypeOK
  <2>6. UnanimityIsAnswered'
    BY <1>1, <2>1 DEF UnanimityIsAnswered
  <2>7. PendingAnswersCurrentRevision'
    BY <1>2, <2>1 DEF PendingAnswersCurrentRevision, work
  <2>8. BoundsAreExact'
    BY <1>2, <2>1 DEF BoundsAreExact, work, PreFreeze
  <2> QED
    BY <2>3, <2>4, <2>5, <2>6, <2>7, <2>8
<1> QED
  BY <1>5, <1>6

\* A decision whose terms are refused changes only who took part.
LEMMA FailAmendmentDecisionStep ==
    ASSUME IInv, NEW by \in Participants, FailAmendmentDecision(by)
    PROVE  IInv'
<1> USE DEF IInv
<1>1. UNCHANGED <<state, amendments, revisions, votes, work, rounds, last_counter_by>>
  BY DEF FailAmendmentDecision
<1>2. TypeOK'
  BY <1>1 DEF TypeOK, FailAmendmentDecision, TakePart, votes, work
<1>3. RevisionsAccountedFor'
  BY <1>1, RevisionsKept DEF RevisionsAccountedFor
<1>4. OpenAmendmentFits' /\ UnanimityIsAnswered'
  BY <1>1 DEF OpenAmendmentFits, UnanimityIsAnswered, votes
<1>5. PendingAnswersCurrentRevision'
  BY <1>1 DEF PendingAnswersCurrentRevision, work, frozen_digest
<1>6. BoundsAreExact'
  BY <1>1 DEF BoundsAreExact, work
<1> QED
  BY <1>2, <1>3, <1>4, <1>5, <1>6

\* A legacy snapshot forgets fields the invariant does not lean on.
LEMMA RestoreStep ==
    ASSUME IInv, RestoreLegacySnapshot
    PROVE  IInv'
<1> USE DEF IInv
<1>1. UNCHANGED <<state, amendments, revisions, agreed_by, rounds,
                  pending_submission, rework_scope, reworks>>
  BY DEF RestoreLegacySnapshot
<1>2. TypeOK'
  BY <1>1 DEF TypeOK, RestoreLegacySnapshot
<1>3. RevisionsAccountedFor'
  BY <1>1, RevisionsKept DEF RevisionsAccountedFor
<1>4. OpenAmendmentFits' /\ UnanimityIsAnswered'
  BY <1>1 DEF OpenAmendmentFits, UnanimityIsAnswered
<1>5. PendingAnswersCurrentRevision'
  BY <1>1 DEF PendingAnswersCurrentRevision, frozen_digest
<1>6. BoundsAreExact'
  BY <1>1 DEF BoundsAreExact
<1> QED
  BY <1>2, <1>3, <1>4, <1>5, <1>6

LEMMA StutterStep ==
    ASSUME IInv, UNCHANGED vars
    PROVE  IInv'
<1> USE DEF IInv
<1>1. UNCHANGED <<state, amendments, revisions, votes, work, loop>>
  BY DEF vars
<1>2. TypeOK'
  BY <1>1 DEF TypeOK, votes, work, loop
<1>3. RevisionsAccountedFor'
  BY <1>1, RevisionsKept DEF RevisionsAccountedFor
<1>4. OpenAmendmentFits' /\ UnanimityIsAnswered'
  BY <1>1 DEF OpenAmendmentFits, UnanimityIsAnswered, votes
<1>5. PendingAnswersCurrentRevision'
  BY <1>1 DEF PendingAnswersCurrentRevision, work, frozen_digest
<1>6. BoundsAreExact'
  BY <1>1 DEF BoundsAreExact, work, loop
<1> QED
  BY <1>2, <1>3, <1>4, <1>5, <1>6

LEMMA StepInv == IInv /\ [Next]_vars => IInv'
<1> SUFFICES ASSUME IInv, [Next]_vars PROVE IInv'
  OBVIOUS
<1>1. CASE \E by \in Participants :
              \/ Counter(by) \/ Withdraw(by)
              \/ ProposeAmendment(by) \/ RefuseAmendment(by) \/ FailAmendmentDecision(by)
  BY <1>1, CounterStep, WithdrawStep, ProposeAmendmentStep, RefuseAmendmentStep,
     FailAmendmentDecisionStep
<1>2. CASE \E by \in Participants, terms \in Terms :
              Agree(by, terms) \/ AcceptAmendment(by, terms)
  BY <1>2, AgreeStep, AcceptAmendmentStep
<1>3. CASE \E by \in Participants, artifacts \in SUBSET Artifacts : Submit(by, artifacts)
  BY <1>3, SubmitStep
<1>4. CASE \E terms \in Terms : Freeze(terms)
  BY <1>4, FreezeStep
<1>5. CASE ExpireNegotiation
  BY <1>5, ExpireStep
<1>6. CASE \E record \in MatchingRecords : ApplyVerification(record)
  BY <1>6, ApplyVerificationStep
<1>7. CASE \E verdict \in Verdict : HostDecides(verdict)
  BY <1>7, DecideStep DEF HostDecides
<1>8. CASE RestoreLegacySnapshot
  BY <1>8, RestoreStep
<1>9. CASE UNCHANGED vars
  BY <1>9, StutterStep
<1> QED
  BY <1>1, <1>2, <1>3, <1>4, <1>5, <1>6, <1>7, <1>8, <1>9 DEF Next

\* The inductive invariant holds throughout every behaviour of the engine.
THEOREM Invariant == Spec => []IInv
<1>1. Init => IInv
  BY InitInv
<1>2. IInv /\ [Next]_vars => IInv'
  BY StepInv
<1> QED
  BY <1>1, <1>2, PTL DEF Spec

--------------------------------------------------------------------------------
(***************************************************************************)
(* The safety properties of the runs, as theorems.                         *)
(***************************************************************************)

\* Every field has its declared type in every reachable state.
THEOREM TypeCorrect == Spec => []TypeOK
<1>1. IInv => TypeOK
  BY DEF IInv
<1> QED
  BY <1>1, Invariant, PTL

\* A contract past its first freeze has revisions numbered 1..n, and exactly one
\* accepted amendment for each after the first.
THEOREM RevisionsCorrect == Spec => []RevisionsAccountedFor
<1>1. IInv => RevisionsAccountedFor
  BY DEF IInv
<1> QED
  BY <1>1, Invariant, PTL

\* The debug_assert of decide_amendment never fires.
THEOREM AmendmentRoom == Spec => []OpenAmendmentFits
<1>1. IInv => OpenAmendmentFits
  BY DEF IInv
<1> QED
  BY <1>1, Invariant, PTL

\* Work under review always answers the revision in force.
THEOREM PendingCurrent == Spec => []PendingAnswersCurrentRevision
<1>1. IInv => PendingAnswersCurrentRevision
  BY DEF IInv
<1> QED
  BY <1>1, Invariant, PTL

\* Both votes on record means `Agreed`, and nothing else.
THEOREM Unanimity == Spec => []UnanimityIsAnswered
<1>1. IInv => UnanimityIsAnswered
  BY DEF IInv
<1> QED
  BY <1>1, Invariant, PTL

\* Rounds and rework verdicts stop exactly at their limits.
THEOREM Bounds == Spec => []BoundsAreExact
<1>1. IInv => BoundsAreExact
  BY DEF IInv
<1> QED
  BY <1>1, Invariant, PTL

\* A step keeps the revisions or, out of a negotiation, adds one at the end.
Grows ==
    \/ revisions' = revisions
    \/ /\ state \in {"agreed", "amending"} /\ state' = "executing"
       /\ \E terms \in Terms :
             revisions' = Append(revisions, [number |-> Len(revisions) + 1, content |-> terms])

LEMMA StepGrows == [Next]_vars => Grows
<1> USE DEF Grows
<1> SUFFICES ASSUME [Next]_vars PROVE Grows
  OBVIOUS
<1>1. CASE \E terms \in Terms : Freeze(terms)
  BY <1>1 DEF Freeze, PushRevision
<1>2. CASE \E by \in Participants, terms \in Terms : AcceptAmendment(by, terms)
  <2>1. PICK by \in Participants, terms \in Terms : AcceptAmendment(by, terms)
    BY <1>2
  <2>2. \/ UNCHANGED <<state, amendments, revisions>>
        \/ PushRevision(terms) /\ state' = "executing" /\ state = "amending"
    BY <2>1 DEF AcceptAmendment
  <2> QED
    BY <2>2 DEF PushRevision
<1>3. CASE \E by \in Participants : Counter(by) \/ Withdraw(by) \/ ProposeAmendment(by)
                                     \/ RefuseAmendment(by) \/ FailAmendmentDecision(by)
  BY <1>3 DEF Counter, Withdraw, ProposeAmendment, RefuseAmendment, FailAmendmentDecision
<1>4. CASE \E by \in Participants, terms \in Terms : Agree(by, terms)
  BY <1>4 DEF Agree
<1>5. CASE \E by \in Participants, artifacts \in SUBSET Artifacts : Submit(by, artifacts)
  BY <1>5 DEF Submit
<1>6. CASE \/ ExpireNegotiation \/ RestoreLegacySnapshot
           \/ \E record \in MatchingRecords : ApplyVerification(record)
           \/ \E verdict \in Verdict : HostDecides(verdict)
           \/ UNCHANGED vars
  BY <1>6 DEF ExpireNegotiation, RestoreLegacySnapshot, ApplyVerification,
              HostDecides, Decide, vars
<1> QED
  BY <1>1, <1>2, <1>3, <1>4, <1>5, <1>6 DEF Next

\* No step rewrites a frozen revision, and only a negotiation adds one.
THEOREM HistoryGrows == Spec => HistoryOnlyGrows
<1>1. [Next]_vars => [Grows]_vars
  BY StepGrows
<1> QED
  BY <1>1, PTL DEF Spec, HistoryOnlyGrows, Grows

\* Nothing follows a terminal state.
THEOREM Finality == Spec => TerminalIsFinal
<1> DEFINE Final == (state \in Terminal) => UNCHANGED <<state, revisions>>
<1>1. [Next]_vars => Final
  <2> SUFFICES ASSUME [Next]_vars, state \in Terminal PROVE UNCHANGED <<state, revisions>>
    BY DEF Terminal
  <2>1. CASE RestoreLegacySnapshot \/ UNCHANGED vars
    BY <2>1 DEF RestoreLegacySnapshot, vars
  <2>2. CASE Next /\ ~ RestoreLegacySnapshot
    BY <2>2 DEF Next, Counter, Withdraw, ProposeAmendment, RefuseAmendment,
                FailAmendmentDecision, Agree, AcceptAmendment, Submit, Freeze,
                ExpireNegotiation, ApplyVerification, HostDecides, Decide,
                Terminal, PreFreeze, MayCounter, NextRound, Spent, ReworkOrReject, MayAmend, Independent
  <2> QED
    BY <2>1, <2>2
<1>2. [Next]_vars => [Final]_vars
  BY <1>1
<1> QED
  BY <1>2, PTL DEF Spec, TerminalIsFinal

\* What is left of the two loops: submissions that can still be made, rounds that
\* can still be spent in the negotiation under way.
SubmissionsLeft ==
    IF state \in Terminal THEN 0
    ELSE (MaxRework - reworks) + (IF state = "verifying" THEN 0 ELSE 1)
RoundsLeft == MaxRounds - rounds

\* One step spends: a submission or a counter takes exactly one of what is left,
\* nothing gives a submission back, and only a new amendment gives rounds back.
Spends ==
    /\ SubmissionsLeft' <= SubmissionsLeft
    /\ (\E by \in Participants, artifacts \in SUBSET Artifacts : Submit(by, artifacts))
           => SubmissionsLeft' = SubmissionsLeft - 1
    /\ (~ \E by \in Participants : ProposeAmendment(by)) => RoundsLeft' <= RoundsLeft
    /\ (\E by \in Participants : Counter(by)) => RoundsLeft' = RoundsLeft - 1

LoopsSpend == [][Spends]_vars

LEMMA LeftIsNat == IInv => SubmissionsLeft \in 0 .. MaxRework + 1 /\ RoundsLeft \in 0 .. MaxRounds
<1> SUFFICES ASSUME IInv
             PROVE  SubmissionsLeft \in 0 .. MaxRework + 1 /\ RoundsLeft \in 0 .. MaxRounds
  OBVIOUS
<1>1. /\ MaxRework \in Nat /\ reworks \in Nat /\ reworks <= MaxRework
      /\ MaxRounds \in Nat /\ rounds \in Nat /\ rounds <= MaxRounds
  BY LimitsAssumption DEF IInv, TypeOK, BoundsAreExact
<1> QED
  BY <1>1 DEF SubmissionsLeft, RoundsLeft

\* A step that is neither a submission, nor a verdict, nor a counter.
LEMMA NothingGivenBack ==
    ASSUME IInv, IInv', UNCHANGED reworks, state # "verifying" \/ state' \in Terminal \cup {"verifying"},
           state \in Terminal => state' \in Terminal
    PROVE  SubmissionsLeft' <= SubmissionsLeft
<1>1. MaxRework \in Nat /\ reworks \in Nat /\ reworks <= MaxRework
  BY LimitsAssumption DEF IInv, TypeOK, BoundsAreExact
<1>2. UNCHANGED reworks
  OBVIOUS
<1> QED
  BY <1>1, <1>2 DEF SubmissionsLeft, Terminal

LEMMA StepSpends ==
    ASSUME IInv, IInv', [Next]_vars
    PROVE  [Spends]_vars
<1>0. /\ MaxRework \in Nat /\ reworks \in Nat /\ reworks <= MaxRework
      /\ MaxRounds \in Nat /\ rounds \in Nat /\ rounds <= MaxRounds
  BY LimitsAssumption DEF IInv, TypeOK, BoundsAreExact
<1>1. ASSUME NEW by \in Participants, Counter(by)
      PROVE  SubmissionsLeft' <= SubmissionsLeft /\ RoundsLeft' = RoundsLeft - 1
  <2>1. /\ state \in {"proposed", "countered", "amending"} /\ UNCHANGED reworks
        /\ rounds' = rounds + 1
    BY <1>1 DEF Counter, MayCounter, NextRound, work
  <2> QED
    BY <1>0, <2>1, NothingGivenBack DEF RoundsLeft, Terminal
<1>2. ASSUME NEW by \in Participants, NEW artifacts \in SUBSET Artifacts, Submit(by, artifacts)
      PROVE  SubmissionsLeft' = SubmissionsLeft - 1 /\ RoundsLeft' = RoundsLeft
  <2>1. state = "executing" /\ state' = "verifying" /\ UNCHANGED <<reworks, rounds>>
    BY <1>2 DEF Submit, loop
  <2> QED
    BY <1>0, <2>1 DEF SubmissionsLeft, RoundsLeft, Terminal
<1>3. ASSUME NEW verdict \in Verdict, Decide(verdict)
      PROVE  SubmissionsLeft' <= SubmissionsLeft /\ RoundsLeft' = RoundsLeft
  <2>1. /\ state = "verifying" /\ UNCHANGED rounds
        /\ \/ state' \in Terminal
           \/ state' = "executing" /\ reworks' = reworks + 1
    BY <1>3 DEF Decide, ReworkOrReject, loop, Terminal
  <2>2. SubmissionsLeft = MaxRework - reworks
    BY <1>0, <2>1 DEF SubmissionsLeft, Terminal
  <2>3. CASE state' \in Terminal
    BY <1>0, <2>1, <2>2, <2>3 DEF SubmissionsLeft, RoundsLeft
  <2>4. CASE state' = "executing" /\ reworks' = reworks + 1
    BY <1>0, <2>1, <2>2, <2>4 DEF SubmissionsLeft, RoundsLeft, Terminal
  <2> QED
    BY <2>1, <2>3, <2>4
<1>4. ASSUME NEW by \in Participants, ProposeAmendment(by)
      PROVE  SubmissionsLeft' <= SubmissionsLeft
  <2>1. state = "executing" /\ UNCHANGED reworks
    BY <1>4 DEF ProposeAmendment, MayAmend, work
  <2> QED
    BY <2>1, NothingGivenBack DEF Terminal
<1>5. ASSUME \/ \E by \in Participants :
                    \/ Withdraw(by) \/ RefuseAmendment(by) \/ FailAmendmentDecision(by)
                    \/ \E terms \in Terms : Agree(by, terms) \/ AcceptAmendment(by, terms)
             \/ \E terms \in Terms : Freeze(terms)
             \/ ExpireNegotiation \/ RestoreLegacySnapshot \/ UNCHANGED vars
      PROVE  /\ SubmissionsLeft' <= SubmissionsLeft /\ RoundsLeft' = RoundsLeft
             /\ UNCHANGED <<rounds, reworks>>
  <2>1. /\ UNCHANGED <<rounds, reworks>>
        /\ \/ UNCHANGED state
           \/ state \in PreFreeze \cup {"amending"}
    <3>1. CASE \E by \in Participants : Withdraw(by) \/ RefuseAmendment(by) \/ FailAmendmentDecision(by)
      BY <3>1 DEF Withdraw, RefuseAmendment, FailAmendmentDecision, work, loop
    <3>2. CASE \E by \in Participants, terms \in Terms : Agree(by, terms)
      BY <3>2 DEF Agree, work, loop
    <3>3. CASE \E by \in Participants, terms \in Terms : AcceptAmendment(by, terms)
      BY <3>3 DEF AcceptAmendment, work
    <3>4. CASE \E terms \in Terms : Freeze(terms)
      BY <3>4 DEF Freeze, work, loop, PreFreeze
    <3>5. CASE ExpireNegotiation \/ RestoreLegacySnapshot \/ UNCHANGED vars
      BY <3>5 DEF ExpireNegotiation, RestoreLegacySnapshot, vars, work, loop
    <3> QED
      BY <1>5, <3>1, <3>2, <3>3, <3>4, <3>5
  <2> QED
    BY <2>1, NothingGivenBack DEF RoundsLeft, PreFreeze, Terminal
<1>6. /\ \A by, artifacts : Submit(by, artifacts) => state = "executing" /\ state' = "verifying"
      /\ \A by : Counter(by) => rounds' = rounds + 1
  BY DEF Submit, Counter, NextRound
<1>7. ASSUME \E by \in Participants : Counter(by)
      PROVE  Spends
  <2>1. PICK by \in Participants : Counter(by)
    BY <1>7
  <2>2. state' # "verifying"
    BY <2>1 DEF Counter, Exhausted
  <2>3. RoundsLeft' <= RoundsLeft
    BY <1>0, <1>1, <2>1 DEF RoundsLeft
  <2> QED
    BY <1>1, <1>6, <2>1, <2>2, <2>3 DEF Spends
<1>8. ASSUME \E by \in Participants, artifacts \in SUBSET Artifacts : Submit(by, artifacts)
      PROVE  Spends
  <2>1. PICK by \in Participants, artifacts \in SUBSET Artifacts : Submit(by, artifacts)
    BY <1>8
  <2>2. \A other : ~ Counter(other)
    BY <2>1 DEF Submit, Counter, MayCounter
  <2>3. SubmissionsLeft' <= SubmissionsLeft /\ RoundsLeft' <= RoundsLeft
    BY <1>0, <1>2, <2>1, LeftIsNat DEF RoundsLeft
  <2> QED
    BY <1>2, <2>1, <2>2, <2>3 DEF Spends
<1>9. ASSUME \E verdict \in Verdict : Decide(verdict)
      PROVE  Spends
  <2>1. PICK verdict \in Verdict : Decide(verdict)
    BY <1>9
  <2>2. \A other : ~ Counter(other) /\ \A artifacts : ~ Submit(other, artifacts)
    BY <2>1 DEF Decide, Submit, Counter, MayCounter
  <2>3. SubmissionsLeft' <= SubmissionsLeft /\ RoundsLeft' <= RoundsLeft
    BY <1>0, <1>3, <2>1, LeftIsNat DEF RoundsLeft
  <2> QED
    BY <2>2, <2>3 DEF Spends
<1>10. ASSUME \E by \in Participants : ProposeAmendment(by)
       PROVE  Spends
  <2>1. PICK by \in Participants : ProposeAmendment(by)
    BY <1>10
  <2>2. \A other : ~ Counter(other) /\ \A artifacts : ~ Submit(other, artifacts)
    BY <2>1 DEF ProposeAmendment, MayAmend, Submit, Counter, MayCounter
  <2> QED
    BY <1>4, <1>10, <2>1, <2>2 DEF Spends
<1>11. ASSUME \/ \E by \in Participants :
                     \/ Withdraw(by) \/ RefuseAmendment(by) \/ FailAmendmentDecision(by)
                     \/ \E terms \in Terms : Agree(by, terms) \/ AcceptAmendment(by, terms)
              \/ \E terms \in Terms : Freeze(terms)
              \/ ExpireNegotiation \/ RestoreLegacySnapshot \/ UNCHANGED vars
       PROVE  Spends
  <2>1. /\ SubmissionsLeft' <= SubmissionsLeft /\ RoundsLeft' = RoundsLeft
        /\ UNCHANGED <<rounds, reworks>>
    BY <1>5, <1>11
  <2>2. \A other : ~ Counter(other)
    BY <1>0, <1>6, <2>1
  <2>3. \A other, artifacts : ~ Submit(other, artifacts)
    BY <1>11 DEF Submit, Withdraw, RefuseAmendment, FailAmendmentDecision, Agree, AcceptAmendment,
                 Freeze, ExpireNegotiation, RestoreLegacySnapshot, vars, PreFreeze, Exhausted
  <2>4. RoundsLeft' <= RoundsLeft
    BY <1>0, <2>1 DEF RoundsLeft
  <2> QED
    BY <2>1, <2>2, <2>3, <2>4 DEF Spends
<1>12. CASE \E record \in MatchingRecords : ApplyVerification(record)
  <2>1. PICK record \in MatchingRecords : ApplyVerification(record)
    BY <1>12
  <2>2. Decide(record.verdict) /\ record.verdict \in Verdict
    BY <2>1 DEF ApplyVerification, MatchingRecords
  <2> QED
    BY <1>9, <2>2
<1>13. CASE \E verdict \in Verdict : HostDecides(verdict)
  BY <1>9, <1>13 DEF HostDecides
<1> QED
  BY <1>7, <1>8, <1>10, <1>11, <1>12, <1>13 DEF Next

\* What LoopsAreBounded rests on (V7, 7.4): the contract starts with max_rework + 1
\* submissions and max_rounds rounds; each submission and each counter takes one,
\* and there are never fewer than none.  No amendment, vote, restored snapshot or
\* record gives a submission back.
THEOREM LoopsOnlySpend ==
    Spec => LoopsSpend /\ [](SubmissionsLeft \in 0 .. MaxRework + 1 /\ RoundsLeft \in 0 .. MaxRounds)
<1>1. IInv /\ IInv' /\ [Next]_vars => [Spends]_vars
  BY StepSpends
<1>2. IInv => SubmissionsLeft \in 0 .. MaxRework + 1 /\ RoundsLeft \in 0 .. MaxRounds
  BY LeftIsNat
<1> QED
  BY <1>1, <1>2, Invariant, PTL DEF Spec, LoopsSpend
--------------------------------------------------------------------------------
(***************************************************************************)
(* The contract engine implements BilateralAgreement: whatever the order   *)
(* of the calls, a revision is frozen only on content both participants    *)
(* accepted since the terms last changed.                                  *)
(***************************************************************************)

LEMMA ParticipantExists == \E p \in Participants : TRUE
<1>1. Cardinality({}) = 0
  BY FS_EmptySet
<1> QED
  BY <1>1, ParticipantsAssumption

\* The contents of a list of revisions form a sequence of terms.
LEMMA ContentsOf ==
    ASSUME NEW r \in Seq(Revision),
           NEW c, c = [i \in 1 .. Len(r) |-> r[i].content]
    PROVE  c \in Seq(Terms) /\ Len(c) = Len(r)
<1>1. Len(r) \in Nat
  OBVIOUS
<1>2. ASSUME NEW i \in 1 .. Len(r) PROVE r[i].content \in Terms
  <2>1. r[i] \in Revision
    BY ElementOfSeq
  <2> QED
    BY <2>1 DEF Revision
<1> QED
  BY <1>1, <1>2

LEMMA ContentsType ==
    ASSUME TypeOK
    PROVE  Contents \in Seq(Terms) /\ Len(Contents) = Len(revisions)
BY ContentsOf DEF TypeOK, Contents

\* Freezing a revision appends its content.
LEMMA ContentsPushed ==
    ASSUME TypeOK, TypeOK', NEW terms \in Terms, PushRevision(terms)
    PROVE  Contents' = Append(Contents, terms)
<1>1. revisions \in Seq(Revision)
  BY DEF TypeOK
<1>2. /\ Len(revisions) \in Nat /\ Len(revisions') = Len(revisions) + 1
      /\ \A i \in 1 .. Len(revisions) : revisions'[i] = revisions[i]
      /\ revisions'[Len(revisions) + 1].content = terms
  BY <1>1, Pushed DEF PushRevision
<1>3. /\ Contents \in Seq(Terms) /\ Len(Contents) = Len(revisions)
      /\ Contents' \in Seq(Terms) /\ Len(Contents') = Len(revisions')
  BY ContentsOf DEF TypeOK, Contents
<1>4. /\ Append(Contents, terms) \in Seq(Terms)
      /\ Len(Append(Contents, terms)) = Len(Contents) + 1
      /\ \A i \in 1 .. Len(Contents) : Append(Contents, terms)[i] = Contents[i]
      /\ Append(Contents, terms)[Len(Contents) + 1] = terms
  BY <1>3, AppendProperties
<1>5. ASSUME NEW i \in 1 .. Len(Contents')
      PROVE  Contents'[i] = Append(Contents, terms)[i]
  <2>1. Contents'[i] = revisions'[i].content
    BY <1>3 DEF Contents
  <2>2. CASE i = Len(revisions) + 1
    BY <1>2, <1>3, <1>4, <2>1, <2>2
  <2>3. CASE i \in 1 .. Len(revisions)
    <3>1. Contents[i] = revisions[i].content
      BY <2>3 DEF Contents
    <3> QED
      BY <1>2, <1>3, <1>4, <2>1, <2>3, <3>1
  <2> QED
    BY <1>2, <1>3, <2>2, <2>3
<1>6. Len(Contents') = Len(Append(Contents, terms))
  BY <1>2, <1>3, <1>4
<1> QED
  BY <1>3, <1>4, <1>5, <1>6, SeqEqual

LEMMA ContentsKept ==
    ASSUME UNCHANGED revisions PROVE UNCHANGED Contents
BY DEF Contents

\* No vote counts outside a negotiation, or unbound to a content.
LEMMA NoVotesNoConsent ==
    ASSUME \/ state' \notin PreFreeze \cup {"amending"}
           \/ agreed_by' = {}
           \/ agreed_terms_digest' = None
    PROVE  Consents' = Agreement!NoConsent
<1>1. \A p \in Participants : ConsentOf(p)' = None
  BY DEF ConsentOf, PreFreeze
<1> QED
  BY <1>1 DEF Consents, Agreement!NoConsent

\* A recorded vote is one participant's consent and leaves the other's alone.
LEMMA VoteIsConsent ==
    ASSUME TypeOK, NEW by \in Participants, NEW terms \in Terms,
           state \in PreFreeze \cup {"amending"},
           state' \in PreFreeze \cup {"amending"},
           CheckTerms(terms), agreed_by' = VotersWith(by), agreed_terms_digest' = terms
    PROVE  Consents' = [Consents EXCEPT ![by] = terms]
<1>1. ConsentOf(by)' = terms
  BY DEF ConsentOf, VotersWith
<1>2. ASSUME NEW p \in Participants, p # by
      PROVE  ConsentOf(p)' = ConsentOf(p)
  <2>1. ConsentOf(p)' = IF p \in agreed_by' THEN terms ELSE None
    BY DEF ConsentOf
  <2>2. ConsentOf(p) = IF p \in agreed_by THEN agreed_terms_digest ELSE None
    BY DEF ConsentOf
  <2>3. CASE agreed_terms_digest = None
    BY <1>2, <2>1, <2>2, <2>3 DEF VotersWith
  <2>4. CASE agreed_terms_digest # None
    <3>1. agreed_terms_digest = terms
      BY <2>4 DEF CheckTerms
    <3> QED
      BY <1>2, <2>1, <2>2, <2>4, <3>1 DEF VotersWith
  <2> QED
    BY <2>3, <2>4
<1> QED
  BY <1>1, <1>2 DEF Consents

LEMMA InitRefines == Init => Agreement!Init
<1> SUFFICES ASSUME Init PROVE Agreement!Init
  OBVIOUS
<1>1. PhaseOf = "forming"
  BY DEF Init, PhaseOf, PreFreeze
<1>2. Consents = Agreement!NoConsent
  BY DEF Init, Consents, ConsentOf, Agreement!NoConsent
<1>3. Contents = <<>>
  <2>1. Len(revisions) = 0
    BY DEF Init
  <2>2. Contents \in Seq(Terms) /\ Len(Contents) = 0
    <3>1. IInv
      BY InitInv
    <3> QED
      BY <2>1, <3>1, ContentsType DEF IInv
  <2> QED
    BY <2>2, EmptySeq
<1> QED
  BY <1>1, <1>2, <1>3 DEF Agreement!Init

--------------------------------------------------------------------------------
(***************************************************************************)
(* Every step of the engine is a step of the promise, or none.             *)
(***************************************************************************)

\* A step that leaves no consent and keeps the history forgets or moves.
LEMMA ForgetOrMove ==
    ASSUME UNCHANGED revisions, Consents' = Agreement!NoConsent,
           \/ PhaseOf' = PhaseOf
           \/ <<PhaseOf, PhaseOf'>> \in Agreement!Moves
    PROVE  Agreement!Next
<1>1. Contents' = Contents
  BY ContentsKept
<1>2. CASE PhaseOf' = PhaseOf
  BY <1>1, <1>2 DEF Agreement!Next, Agreement!Forget
<1>3. CASE <<PhaseOf, PhaseOf'>> \in Agreement!Moves
  BY <1>1, <1>3 DEF Agreement!Next, Agreement!Move
<1> QED
  BY <1>2, <1>3

LEMMA CounterRefines ==
    ASSUME NEW by \in Participants, Counter(by)
    PROVE  Agreement!Next
<1>1. UNCHANGED revisions /\ agreed_terms_digest' = None
  BY DEF Counter, ClearVotes
<1>2. \/ PhaseOf' = PhaseOf
      \/ <<PhaseOf, PhaseOf'>> \in Agreement!Moves
  BY DEF Counter, Exhausted, PhaseOf, PreFreeze, Agreement!Moves, MayCounter, NextRound, Spent
<1> QED
  BY <1>1, <1>2, NoVotesNoConsent, ForgetOrMove

LEMMA VoteRefines ==
    ASSUME TypeOK, NEW by \in Participants, NEW terms \in Terms,
           Agree(by, terms)
    PROVE  Agreement!Next
<1>1. state \in PreFreeze /\ state' \in PreFreeze
  BY DEF Agree, PreFreeze
<1>2. PhaseOf = "forming" /\ PhaseOf' = "forming"
  BY <1>1 DEF PhaseOf, PreFreeze
<1>3. Consents' = [Consents EXCEPT ![by] = terms]
  BY <1>1, VoteIsConsent DEF Agree
<1>4. Contents' = Contents
  BY ContentsKept DEF Agree
<1>5. Agreement!Consent(by, terms)
  BY <1>2, <1>3, <1>4 DEF Agreement!Consent, Agreement!Negotiating
<1> QED
  BY <1>5 DEF Agreement!Next

\* The host freezes only content both participants are on record for.
LEMMA FreezeRefines ==
    ASSUME TypeOK, TypeOK', NEW terms \in Terms, Freeze(terms)
    PROVE  Agreement!Next
<1>1. PICK p \in Participants : TRUE
  BY ParticipantExists
<1>2. PhaseOf = "forming" /\ PhaseOf' = "working"
  BY DEF Freeze, PhaseOf, PreFreeze
<1>3. \A q \in Participants : Consents[q] = terms
  BY DEF Freeze, Consents, ConsentOf, PreFreeze
<1>4. Consents' = Agreement!NoConsent
  BY NoVotesNoConsent DEF Freeze, ClearVotes
<1>5. Contents' = Append(Contents, terms)
  BY ContentsPushed DEF Freeze
<1>6. Agreement!Adopt(p, terms)
  BY <1>2, <1>3, <1>4, <1>5 DEF Agreement!Adopt, Agreement!Negotiating
<1> QED
  BY <1>6 DEF Agreement!Next

\* The first vote on an amendment is a consent, the second adopts it.
LEMMA AcceptAmendmentRefines ==
    ASSUME TypeOK, TypeOK', NEW by \in Participants, NEW terms \in Terms,
           AcceptAmendment(by, terms)
    PROVE  Agreement!Next
<1>1. state = "amending" /\ PhaseOf = "amending" /\ CheckTerms(terms)
  BY DEF AcceptAmendment, PhaseOf, PreFreeze
<1>2. CASE Cardinality(VotersWith(by)) < 2
  <2>1. /\ state' = state /\ UNCHANGED revisions
        /\ agreed_by' = VotersWith(by) /\ agreed_terms_digest' = terms
    BY <1>2 DEF AcceptAmendment
  <2>2. Consents' = [Consents EXCEPT ![by] = terms]
    BY <1>1, <2>1, VoteIsConsent
  <2>3. Agreement!Consent(by, terms)
    BY <1>1, <2>1, <2>2, ContentsKept
       DEF Agreement!Consent, Agreement!Negotiating, PhaseOf
  <2> QED
    BY <2>3 DEF Agreement!Next
<1>3. CASE ~ (Cardinality(VotersWith(by)) < 2)
  <2>1. state' = "executing" /\ PushRevision(terms) /\ agreed_terms_digest' = None
    BY <1>3 DEF AcceptAmendment, ClearVotes
  <2>2. VotersWith(by) = Participants
    BY <1>3, VotersWithFacts
  <2>3. ASSUME NEW q \in Participants \ {by}
        PROVE  Consents[q] = terms
    <3>1. agreed_terms_digest # None /\ q \in agreed_by
      BY <2>2 DEF VotersWith
    <3>2. agreed_terms_digest = terms
      BY <1>1, <3>1 DEF CheckTerms
    <3> QED
      BY <1>1, <3>1, <3>2 DEF Consents, ConsentOf
  <2>4. PhaseOf' = "working" /\ Consents' = Agreement!NoConsent
    BY <2>1, NoVotesNoConsent DEF PhaseOf, PreFreeze
  <2>5. Contents' = Append(Contents, terms)
    BY <2>1, ContentsPushed
  <2>6. Agreement!Adopt(by, terms)
    BY <1>1, <2>3, <2>4, <2>5 DEF Agreement!Adopt, Agreement!Negotiating
  <2> QED
    BY <2>6 DEF Agreement!Next
<1> QED
  BY <1>2, <1>3

\* Moves between the phases: none of them leaves a consent behind.
LEMMA MoveRefines ==
    ASSUME \/ \E by \in Participants :
                 Withdraw(by) \/ ProposeAmendment(by) \/ RefuseAmendment(by)
           \/ \E by \in Participants, artifacts \in SUBSET Artifacts : Submit(by, artifacts)
           \/ \E verdict \in Verdict : Decide(verdict)
           \/ ExpireNegotiation
    PROVE  Agreement!Next
<1>1. UNCHANGED revisions
  BY DEF Withdraw, ProposeAmendment, RefuseAmendment, Submit, Decide, ExpireNegotiation
<1>2. \/ state' \notin PreFreeze \cup {"amending"}
      \/ agreed_terms_digest' = None
  BY DEF Withdraw, ProposeAmendment, RefuseAmendment, Submit, Decide, ExpireNegotiation,
         Exhausted, ClearVotes, PreFreeze, ReworkOrReject, MayAmend
<1>3. <<PhaseOf, PhaseOf'>> \in Agreement!Moves
  BY DEF Withdraw, ProposeAmendment, RefuseAmendment, Submit, Decide, ExpireNegotiation,
         Exhausted, PhaseOf, PreFreeze, Agreement!Moves, ReworkOrReject, MayAmend
<1> QED
  BY <1>1, <1>2, <1>3, NoVotesNoConsent, ForgetOrMove

\* Calls that change nothing the promise speaks of.
LEMMA QuietRefines ==
    ASSUME UNCHANGED <<state, votes, revisions>>
    PROVE  UNCHANGED <<PhaseOf, Consents, Contents>>
<1>1. \A p \in Participants : ConsentOf(p)' = ConsentOf(p)
  BY DEF ConsentOf, votes
<1>2. Consents' = Consents
  BY <1>1 DEF Consents
<1>3. PhaseOf' = PhaseOf
  BY DEF PhaseOf
<1> QED
  BY <1>2, <1>3, ContentsKept

\* A legacy snapshot without the terms forgets the votes; with them it keeps them.
LEMMA RestoreRefines ==
    ASSUME RestoreLegacySnapshot
    PROVE  Agreement!Next \/ UNCHANGED <<PhaseOf, Consents, Contents>>
<1>1. UNCHANGED <<state, revisions>> /\ agreed_by' = agreed_by
  BY DEF RestoreLegacySnapshot
<1>2. CASE agreed_terms_digest' = None
  <2>1. PhaseOf' = PhaseOf
    BY <1>1 DEF PhaseOf
  <2> QED
    BY <1>1, <1>2, <2>1, NoVotesNoConsent, ForgetOrMove
<1>3. CASE agreed_terms_digest' = agreed_terms_digest
  BY <1>1, <1>3, QuietRefines DEF votes
<1> QED
  BY <1>2, <1>3 DEF RestoreLegacySnapshot

LEMMA StepRefines ==
    TypeOK /\ TypeOK' /\ [Next]_vars => [Agreement!Next]_(Agreement!vars)
<1> SUFFICES ASSUME TypeOK, TypeOK', [Next]_vars
             PROVE  Agreement!Next \/ UNCHANGED <<PhaseOf, Consents, Contents>>
  BY DEF Agreement!vars
<1>1. CASE \E by \in Participants : Counter(by)
  BY <1>1, CounterRefines
<1>2. CASE \E by \in Participants, terms \in Terms :
              Agree(by, terms) \/ AcceptAmendment(by, terms)
  BY <1>2, VoteRefines, AcceptAmendmentRefines
<1>3. CASE \E terms \in Terms : Freeze(terms)
  BY <1>3, FreezeRefines
<1>4. CASE \E record \in MatchingRecords : ApplyVerification(record)
  BY <1>4, MoveRefines DEF ApplyVerification, MatchingRecords
<1>5. CASE \E verdict \in Verdict : HostDecides(verdict)
  BY <1>5, MoveRefines DEF HostDecides
<1>6. CASE \/ \E by \in Participants :
                 Withdraw(by) \/ ProposeAmendment(by) \/ RefuseAmendment(by)
           \/ \E by \in Participants, artifacts \in SUBSET Artifacts : Submit(by, artifacts)
           \/ ExpireNegotiation
  BY <1>6, MoveRefines
<1>7. CASE UNCHANGED vars \/ \E by \in Participants : FailAmendmentDecision(by)
  BY <1>7, QuietRefines DEF vars, FailAmendmentDecision
<1>8. CASE RestoreLegacySnapshot
  BY <1>8, RestoreRefines
<1> QED
  BY <1>1, <1>2, <1>3, <1>4, <1>5, <1>6, <1>7, <1>8 DEF Next

\* The engine keeps the promise: in every behaviour each frozen revision was
\* accepted by both participants, and nothing is rewritten or revived.
THEOREM Refinement == Spec => ImplementsAgreement
<1>1. Init => Agreement!Init
  BY InitRefines
<1>2. TypeOK /\ TypeOK' /\ [Next]_vars => [Agreement!Next]_(Agreement!vars)
  BY StepRefines
<1>3. Spec => []TypeOK
  BY TypeCorrect
<1> QED
  BY <1>1, <1>2, <1>3, PTL DEF Spec, ImplementsAgreement, Agreement!Spec
================================================================================
