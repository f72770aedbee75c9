--------------------------- MODULE BilateralContract ---------------------------
(***************************************************************************)
(* The bilateral contract engine, src/src/v2/contract.rs.                  *)
(*                                                                         *)
(* One instance of `Contract` from the moment `propose` has built it.  The *)
(* engine is a sequential state machine: each method of the Rust type is   *)
(* one action, and the order in which the two participants, the verifier   *)
(* and the host (freeze, expiry) call it is arbitrary.  A call the engine  *)
(* refuses without touching the contract is a stuttering step; the two     *)
(* refusals that do change it (a counter that exhausts the rounds and an   *)
(* amendment decision whose terms are refused) are modelled.               *)
(***************************************************************************)
EXTENDS Integers, Sequences, FiniteSets

CONSTANTS
    Participants,     \* the two parties of the session the contract formed in
    Terms,            \* canonical contents, told apart by their digest
    Artifacts,        \* artifact identifiers
    None,             \* Rust's Option::None
    MaxRounds,        \* ContractLimits.max_rounds
    MaxAmendments,    \* ContractLimits.max_amendments
    MaxRework,        \* ContractLimits.max_rework
    LegacySnapshots,  \* may the host reload a snapshot of an older writer?
    HostVerdicts      \* may the host call the unchecked `decide` itself?

ASSUME ParticipantsAssumption ==
    IsFiniteSet(Participants) /\ Cardinality(Participants) = 2

\* `propose` refuses max_rounds < 1 and max_amendments < 1 (BadLimits).
ASSUME LimitsAssumption ==
    /\ MaxRounds \in Nat \ {0}
    /\ MaxAmendments \in Nat \ {0}
    /\ MaxRework \in Nat

ASSUME FlagsAssumption == LegacySnapshots \in BOOLEAN /\ HostVerdicts \in BOOLEAN

\* A frozen revision.  Its digest is taken over contract id, number and
\* content, so within one contract the pair is the digest.
Revision == [number : Nat \ {0}, content : Terms]

\* Evidence references and the completion claim play no part in a guard.
Submission == [against_revision : Revision, artifacts : SUBSET Artifacts]

Verdict == {"accept", "rework", "reject"}

\* A verification record that is addressed to this contract.  `passed` says
\* whether it carries a passing check, `failed` whether it carries a failing one.
Verification ==
    [ verifier : Participants, against_revision : Revision,
      artifacts : SUBSET Artifacts, passed : BOOLEAN, failed : BOOLEAN,
      verdict : Verdict ]

ASSUME NoneAssumption ==
    None \notin Participants \cup Terms \cup Revision \cup Submission

VARIABLES
    state, rounds, amendments, reworks,
    agreed_by, agreed_terms_digest, last_counter_by, amendment_participants,
    revisions, pending_submission, pending_submitter,
    rework_scope      \* is a rework scope recorded?  (its text is abstracted)

votes == <<agreed_by, agreed_terms_digest>>
work  == <<pending_submission, pending_submitter, rework_scope, reworks>>
loop  == <<rounds, last_counter_by, amendment_participants>>
vars  == <<state, amendments, revisions, votes, work, loop>>

PreFreeze == {"proposed", "countered", "agreed"}
Frozen    == {"executing", "amending", "verifying", "settled", "rejected"}
Terminal  == {"settled", "rejected", "withdrawn", "noagreement"}

ContractState == PreFreeze \cup Frozen \cup Terminal

frozen_digest ==
    IF revisions = <<>> THEN None ELSE revisions[Len(revisions)]

--------------------------------------------------------------------------------
(***************************************************************************)
(* Negotiation.                                                            *)
(***************************************************************************)

\* What `propose` returns on success.
Init ==
    /\ state = "proposed"
    /\ rounds = 0 /\ amendments = 0 /\ reworks = 0
    /\ agreed_by = {} /\ agreed_terms_digest = None
    /\ last_counter_by = None /\ amendment_participants = {}
    /\ revisions = <<>>
    /\ pending_submission = None /\ pending_submitter = None
    /\ rework_scope = FALSE

ClearVotes == agreed_by' = {} /\ agreed_terms_digest' = None

\* A bilateral amendment that runs out ends the contract; one that only its
\* proposer took part in falls back to the current revision.
Exhausted(amending, took_part) ==
    IF amending /\ Cardinality(took_part) < 2 THEN "executing" ELSE "noagreement"

MayCounterAgain(by) == state \in {"proposed", "countered", "amending"}    \* mutant
MayCounter(by) ==
    state \in {"proposed", "countered", "amending"} /\ last_counter_by # by

SameRound == rounds    \* mutant
NextRound == rounds + 1

SpentLate(n) == n > MaxRounds    \* mutant
Spent(n) == n >= MaxRounds

\* counter: it spends a round, resets the votes, and when it is the last round
\* it is refused (RoundsExhausted) after the state has moved.
Counter(by) ==
    /\ MayCounter(by)
    /\ last_counter_by' = by
    /\ amendment_participants' =
           amendment_participants \cup (IF state = "amending" THEN {by} ELSE {})
    /\ rounds' = NextRound
    /\ ClearVotes
    /\ state' = IF Spent(rounds')
                THEN Exhausted(state = "amending", amendment_participants')
                ELSE IF state = "amending" THEN "amending" ELSE "countered"
    /\ UNCHANGED <<amendments, revisions, work>>

\* check_terms: once a vote is recorded, only its content is acceptable.
CheckTerms(terms) == agreed_terms_digest \in {None, terms}

\* Record a vote; names a legacy snapshot carried without terms are dropped.
VotersWithStale(by) == agreed_by \cup {by}    \* mutant
VotersWith(by) ==
    (IF agreed_terms_digest = None THEN {} ELSE agreed_by) \cup {by}

Agree(by, terms) ==
    /\ state \in PreFreeze
    /\ CheckTerms(terms)
    /\ agreed_by' = VotersWith(by)
    /\ agreed_terms_digest' = terms
    /\ state' = IF Cardinality(agreed_by') = 2 THEN "agreed" ELSE "proposed"
    /\ UNCHANGED <<amendments, revisions, work, loop>>

PushUnnumbered(terms) ==    \* mutant
    revisions' = Append(revisions, [number |-> Len(revisions), content |-> terms])
PushRevision(terms) ==
    revisions' = Append(revisions, [number |-> Len(revisions) + 1, content |-> terms])

Freeze(terms) ==
    /\ state = "agreed"
    /\ Participants \subseteq agreed_by
    /\ agreed_terms_digest = terms
    /\ PushRevision(terms)
    /\ ClearVotes
    /\ state' = "executing"
    /\ UNCHANGED <<amendments, work, loop>>

Withdraw(by) ==
    /\ state \in PreFreeze
    /\ state' = "withdrawn"
    /\ UNCHANGED <<amendments, revisions, votes, work, loop>>

\* The deadline passes.  The votes stay where they are.
ExpireNegotiation ==
    /\ state \in PreFreeze \cup {"amending"}
    /\ state' = Exhausted(state = "amending", amendment_participants)
    /\ UNCHANGED <<amendments, revisions, votes, work, loop>>

--------------------------------------------------------------------------------
(***************************************************************************)
(* Work: submission and verdict.                                           *)
(***************************************************************************)

SubmitAnonymously(by, artifacts) ==    \* mutant
    /\ state = "executing"
    /\ pending_submission' =
           [against_revision |-> frozen_digest, artifacts |-> artifacts]
    /\ state' = "verifying"
    /\ UNCHANGED <<amendments, revisions, votes, pending_submitter,
                   rework_scope, reworks, loop>>

\* submit: either participant, not only the task's owner.
Submit(by, artifacts) ==
    /\ state = "executing"
    /\ pending_submission' =
           [against_revision |-> frozen_digest, artifacts |-> artifacts]
    /\ pending_submitter' = by
    /\ state' = "verifying"
    /\ UNCHANGED <<amendments, revisions, votes, rework_scope, reworks, loop>>

ReworkCountsDown ==    \* mutant
    reworks < MaxRework /\ state' = "executing" /\ reworks' = reworks - 1
ReworkUncounted == state' = "executing" /\ UNCHANGED reworks    \* mutant

\* A rework verdict beyond the bound is a rejection.
ReworkOrReject ==
    \/ reworks >= MaxRework /\ state' = "rejected" /\ UNCHANGED reworks
    \/ reworks < MaxRework /\ state' = "executing" /\ reworks' = reworks + 1

Decide(verdict) ==
    /\ state = "verifying"
    /\ pending_submission' = None
    /\ pending_submitter' = None
    /\ rework_scope' = (verdict = "rework")
    /\ \/ verdict = "accept" /\ state' = "settled" /\ UNCHANGED reworks
       \/ verdict = "reject" /\ state' = "rejected" /\ UNCHANGED reworks
       \/ verdict = "rework" /\ ReworkOrReject
    /\ UNCHANGED <<amendments, revisions, votes, loop>>

\* Verification::validate: an accept stands on artifacts and on checks that
\* passed, none of which failed.
Valid(record) ==
    record.verdict = "accept" =>
        record.artifacts # {} /\ record.passed /\ ~record.failed

SelfReview(verifier) == pending_submitter # None    \* mutant
Independent(verifier) == pending_submitter \notin {None, verifier}

ApplyVerification(record) ==
    /\ Valid(record)
    /\ pending_submission # None
    /\ Independent(record.verifier)
    /\ record.against_revision = pending_submission.against_revision
    /\ record.artifacts = pending_submission.artifacts
    /\ Decide(record.verdict)

--------------------------------------------------------------------------------
(***************************************************************************)
(* Amendments of the frozen revision.                                      *)
(***************************************************************************)

MayAmendUnderReview ==    \* mutant
    state \in {"executing", "verifying"} /\ amendments < MaxAmendments
MayAmend == state = "executing" /\ amendments < MaxAmendments

ProposeAmendment(by) ==
    /\ MayAmend
    /\ state' = "amending"
    /\ ClearVotes
    /\ rounds' = 0
    /\ last_counter_by' = None
    /\ amendment_participants' = {by}
    /\ UNCHANGED <<amendments, revisions, work>>

TakePart(by) == amendment_participants' = amendment_participants \cup {by}

RefuseAmendment(by) ==
    /\ state = "amending"
    /\ TakePart(by)
    /\ state' = "executing"
    /\ ClearVotes
    /\ UNCHANGED <<amendments, revisions, work, rounds, last_counter_by>>

\* decide_amendment(by, true, Some(terms)): the second vote for the same terms
\* freezes the next revision.
AcceptAmendment(by, terms) ==
    /\ state = "amending"
    /\ TakePart(by)
    /\ CheckTerms(terms)
    /\ IF Cardinality(VotersWith(by)) < 2
       THEN /\ agreed_by' = VotersWith(by)
            /\ agreed_terms_digest' = terms
            /\ UNCHANGED <<state, amendments, revisions>>
       ELSE /\ amendments' = amendments + 1
            /\ PushRevision(terms)
            /\ ClearVotes
            /\ state' = "executing"
    /\ UNCHANGED <<work, rounds, last_counter_by>>

\* decide_amendment(by, true, ..) with no terms, with terms that have no
\* canonical form or with terms other than those voted for: an error, but the
\* caller has been recorded as taking part.
FailAmendmentDecision(by) ==
    /\ state = "amending"
    /\ TakePart(by)
    /\ UNCHANGED <<state, amendments, revisions, votes, work, rounds, last_counter_by>>

--------------------------------------------------------------------------------
(***************************************************************************)
(* Persistence.  Contract snapshots are serialised by the host.  A current *)
(* snapshot restores every field; in one of an older writer any of the     *)
(* fields added with #[serde(default)] may be absent and comes back empty. *)
(* Writers older than max_rework are left out: their snapshots restore     *)
(* other limits, which are constants here.                                 *)
(***************************************************************************)
RestoreLegacySnapshot ==
    /\ LegacySnapshots
    /\ agreed_terms_digest' \in {agreed_terms_digest, None}
    /\ last_counter_by' \in {last_counter_by, None}
    /\ amendment_participants' \in {amendment_participants, {}}
    /\ pending_submitter' \in {pending_submitter, None}
    /\ UNCHANGED <<state, amendments, revisions, agreed_by, rounds,
                   pending_submission, rework_scope, reworks>>

HostDecides(verdict) == HostVerdicts /\ Decide(verdict)

\* The records that can match: those that name the frozen revision.  Any other
\* is refused without a change of state.
MatchingRecords ==
    IF revisions = <<>> THEN {}
    ELSE { record \in [ verifier : Participants,
                        against_revision : {revisions[i] : i \in DOMAIN revisions},
                        artifacts : SUBSET Artifacts,
                        passed : BOOLEAN, failed : BOOLEAN, verdict : Verdict ]
             : Valid(record) }

Next ==
    \/ \E by \in Participants :
          \/ Counter(by) \/ Withdraw(by)
          \/ ProposeAmendment(by) \/ RefuseAmendment(by) \/ FailAmendmentDecision(by)
          \/ \E terms \in Terms : Agree(by, terms) \/ AcceptAmendment(by, terms)
          \/ \E artifacts \in SUBSET Artifacts : Submit(by, artifacts)
    \/ \E terms \in Terms : Freeze(terms)
    \/ ExpireNegotiation
    \/ \E record \in MatchingRecords : ApplyVerification(record)
    \/ \E verdict \in Verdict : HostDecides(verdict)
    \/ RestoreLegacySnapshot

Spec == Init /\ [][Next]_vars

--------------------------------------------------------------------------------
(***************************************************************************)
(* Properties.                                                             *)
(***************************************************************************)

\* Every field has the type contract.rs declares for it.
TypeOK ==
    /\ state \in ContractState
    /\ rounds \in Nat /\ amendments \in Nat /\ reworks \in Nat
    /\ agreed_by \subseteq Participants
    /\ agreed_terms_digest \in Terms \cup {None}
    /\ last_counter_by \in Participants \cup {None}
    /\ amendment_participants \subseteq Participants
    /\ revisions \in Seq(Revision)
    /\ pending_submission \in Submission \cup {None}
    /\ pending_submitter \in Participants \cup {None}
    /\ rework_scope \in BOOLEAN

\* "Executing means a frozen agreement exists" (README): exactly the states past
\* the first freeze have a revision, the revisions are numbered 1..n, and each
\* after the first is one accepted amendment.
RevisionsAccountedFor ==
    /\ state \in PreFreeze \cup {"withdrawn"} => revisions = <<>>
    /\ state \in Frozen => revisions # <<>>
    /\ \A i \in DOMAIN revisions : revisions[i].number = i
    /\ amendments = IF revisions = <<>> THEN 0 ELSE Len(revisions) - 1

\* The debug_assert of decide_amendment: an open amendment always has room to
\* be accepted, so agreeing to one never has to be answered by an error.
OpenAmendmentFits ==
    /\ state = "amending" => amendments < MaxAmendments
    /\ amendments <= MaxAmendments

\* Work under review answers the revision in force: no amendment, freeze or
\* restored snapshot can slip a new revision under a pending submission.
PendingAnswersCurrentRevision ==
    /\ state = "verifying" <=> pending_submission # None
    /\ pending_submission # None =>
           pending_submission.against_revision = frozen_digest

\* Two votes never lie around unanswered: while the terms can still be countered,
\* and after any freeze, one participant at most is on record (votes an expired
\* amendment left included), and `Agreed` means both are.
UnanimityIsAnswered ==
    /\ state \in {"proposed", "countered"} \cup Frozen => Cardinality(agreed_by) < 2
    /\ state = "agreed" => agreed_by = Participants

\* A contract whose rounds are spent is no longer open to counters, and rework
\* turns into a rejection only once max_rework verdicts have been granted.
BoundsAreExact ==
    /\ rounds <= MaxRounds
    /\ state \in PreFreeze \cup {"amending"} => rounds < MaxRounds
    /\ reworks <= MaxRework
    /\ state = "rejected" /\ rework_scope => reworks = MaxRework

\* History is never rewritten (7.6): a step adds at most one revision at the
\* end, and only a step that leaves a negotiation adds one.
HistoryOnlyGrows ==
    [][ \/ revisions' = revisions
        \/ /\ state \in {"agreed", "amending"} /\ state' = "executing"
           /\ \E terms \in Terms :
                 revisions' = Append(revisions,
                     [number |-> Len(revisions) + 1, content |-> terms]) ]_vars

\* Settled, rejected, withdrawn and no-agreement are terminal: no call, late
\* record or restored snapshot revives the contract or adds to its history.
TerminalIsFinal ==
    [][ (state \in Terminal) => UNCHANGED <<state, revisions>> ]_vars

\* Bounded negotiation (7.4): before the first freeze nobody can go on
\* countering for ever, whatever the interleaving with votes.
NegotiationIsBounded ==
    <>[][ ~ \E by \in Participants : revisions = <<>> /\ Counter(by) ]_vars

\* Finding V7: the executing/verifying loop is bounded, with any mixture of
\* rework verdicts and amendments in between.
ReworkIsBounded ==
    <>[][ ~ \E by \in Participants, artifacts \in SUBSET Artifacts :
              Submit(by, artifacts) ]_vars

\* Both together: no interleaving of the two parties keeps a contract going.
LoopsAreBounded == NegotiationIsBounded /\ ReworkIsBounded

\* No sequence of calls walks a contract into a state from which no call of a
\* participant, a verifier or the deadline leads on (hosts that validate records).
NeverStuck == state \in Terminal \/ ENABLED <<Next>>_vars

(***************************************************************************)
(* The engine implements BilateralAgreement.  Consent is read off the votes*)
(* only while they are pending and bound to a content: names a legacy      *)
(* snapshot carries without terms, and votes an expired amendment left     *)
(* behind, are no consent.                                                 *)
(***************************************************************************)
ConsentOf(p) ==
    IF state \in PreFreeze \cup {"amending"} /\ p \in agreed_by
    THEN agreed_terms_digest ELSE None

PhaseOf ==
    CASE state \in PreFreeze   -> "forming"
      [] state = "executing"   -> "working"
      [] state = "verifying"   -> "reviewing"
      [] OTHER                 -> state

Consents == [p \in Participants |-> ConsentOf(p)]

Contents == [i \in 1 .. Len(revisions) |-> revisions[i].content]

Agreement == INSTANCE BilateralAgreement WITH
    phase <- PhaseOf, consent <- Consents, history <- Contents

\* Every step of the engine is a step of the promise, or none: a revision is
\* frozen only on content both participants accepted in this negotiation.
ImplementsAgreement == Agreement!Spec
================================================================================
