----------------------------- MODULE ContractAudit -----------------------------
(***************************************************************************)
(* BilateralContract with its surroundings: verification records travel    *)
(* over an at-least-once edge (README, "Integration trust boundaries"), so *)
(* a record may arrive late, again, or after the work it judged was        *)
(* resubmitted; and an audit log that no guard reads records who did what. *)
(*                                                                         *)
(* The host validates records and writes current snapshots:                *)
(* `apply_verification` is the only way to a verdict here.                 *)
(***************************************************************************)
EXTENDS BilateralContract

CONSTANT MaxIssued        \* bound on the verification records ever issued

ASSUME MaxIssuedAssumption == MaxIssued \in Nat

VARIABLES
    issued,       \* the records on the edge; delivery does not remove them
    last_work,    \* the last submission and its submitter
    acted,        \* who took part in the current amendment by a call that was
                  \* accepted, or by the counter that spent the last round
    counters      \* the last two counters of the current negotiation loop, in order

audit == <<issued, last_work, acted, counters>>
avars == <<vars, audit>>

AuditInit ==
    /\ Init
    /\ issued = {} /\ last_work = None
    /\ acted = {} /\ counters = <<>>

LastTwo(s) == IF Len(s) > 2 THEN Tail(s) ELSE s

AuditCounter(by) ==
    /\ Counter(by)
    /\ counters' = LastTwo(Append(counters, by))
    /\ acted' = acted \cup {by}
    /\ UNCHANGED <<issued, last_work>>

AuditPropose(by) ==
    /\ ProposeAmendment(by)
    /\ counters' = <<>>
    /\ acted' = {by}
    /\ UNCHANGED <<issued, last_work>>

AuditDecision(by) ==
    /\ RefuseAmendment(by) \/ \E terms \in Terms : AcceptAmendment(by, terms)
    /\ acted' = acted \cup {by}
    /\ UNCHANGED <<issued, last_work, counters>>

AuditSubmit(by, artifacts) ==
    /\ Submit(by, artifacts)
    /\ last_work' = [submission |-> pending_submission', by |-> by]
    /\ UNCHANGED <<issued, acted, counters>>

\* A participant reviews what is pending and puts a record on the edge; nothing
\* keeps the submitter from reviewing its own work.
IssueRecord(verifier, verdict) ==
    /\ state = "verifying"
    /\ Cardinality(issued) < MaxIssued
    /\ LET record == [ verifier |-> verifier,
                       against_revision |-> pending_submission.against_revision,
                       artifacts |-> pending_submission.artifacts,
                       passed |-> verdict = "accept", failed |-> verdict # "accept",
                       verdict |-> verdict ]
       IN  Valid(record) /\ issued' = issued \cup {record}
    /\ UNCHANGED <<vars, last_work, acted, counters>>

\* Any issued record, delivered now: for the first time, late or again.
DeliverRecord == \E record \in issued : ApplyVerification(record) /\ UNCHANGED audit

\* Calls the log has nothing to say about.
Unlogged ==
    /\ \/ \E by \in Participants :
             Withdraw(by) \/ FailAmendmentDecision(by) \/ \E t \in Terms : Agree(by, t)
       \/ \E terms \in Terms : Freeze(terms)
       \/ ExpireNegotiation
    /\ UNCHANGED audit

AuditNext ==
    \/ \E by \in Participants :
          \/ AuditCounter(by) \/ AuditPropose(by) \/ AuditDecision(by)
          \/ \E artifacts \in SUBSET Artifacts : AuditSubmit(by, artifacts)
          \/ \E verdict \in Verdict : IssueRecord(by, verdict)
    \/ DeliverRecord
    \/ Unlogged

AuditSpec == AuditInit /\ [][AuditNext]_avars

--------------------------------------------------------------------------------
\* A settled contract stands on a record: the counterparty of whoever delivered
\* the last work accepted exactly those artifacts, under the revision in force,
\* however records were delayed, repeated or mixed up between submissions.
SettledOnReviewedWork ==
    state = "settled" =>
        \E record \in issued :
            /\ record.verdict = "accept" /\ record.artifacts # {}
            /\ record.verifier # last_work.by
            /\ record.artifacts = last_work.submission.artifacts
            /\ record.against_revision = frozen_digest

\* "The same participant MUST NOT counter twice consecutively" (7.4), over whole
\* negotiations: with votes, refusals and failed calls in between, the counters
\* of one loop still alternate.
CountersAlternate ==
    \A i \in 1 .. Len(counters) - 1 : counters[i] # counters[i + 1]

\* 7.4: "only bilateral exhaustion is NO_AGREEMENT".  A contract with a frozen
\* revision ends without agreement only if both participants took part in the
\* amendment; test missing_or_noncanonical_amendment_terms_do_not_record_a_vote
\* says a decision refused for its terms leaves the contract as it was.
UnilateralAmendmentSurvives ==
    state = "noagreement" /\ revisions # <<>> => acted = Participants
================================================================================
