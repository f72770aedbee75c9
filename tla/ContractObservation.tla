------------------------- MODULE ContractObservation -------------------------
(***************************************************************************)
(* What a guardian reads off the snapshot of a contract: contract_view in  *)
(* src/src/secure/guardian.rs, over the states the engine of               *)
(* BilateralContract can write to .hacp/session.json.                      *)
(*                                                                         *)
(* The snapshot may hold further contracts of the same session.  They are  *)
(* parameters of the observation: `others` are the revisions in force of   *)
(* contracts past their first freeze, `proposing` says whether one is      *)
(* proposed or countered.                                                  *)
(***************************************************************************)
EXTENDS BilateralContract, ContractView

CONSTANT Neighbours    \* revisions in force of other contracts of the session

ASSUME NeighboursAssumption ==
    /\ NoBinding \notin Revision \cup Neighbours
    /\ Neighbours \cap Revision = {}

\* The states whose revisions are looked at.
Observed == {"executing", "verifying", "amending", "settled", "rejected", "noagreement"}

\* Never frozen, and on its way or declined: bootstrap messages still come.
Bootstraps ==
    \/ state \in {"proposed", "countered"}
    \/ state \in {"noagreement", "withdrawn"} /\ revisions = <<>>

Looked == ~ Bootstraps /\ state \in Observed

NumbersRise ==
    /\ \A i \in DOMAIN revisions : revisions[i].number > 0
    /\ \A i, j \in DOMAIN revisions : i < j => revisions[i].number < revisions[j].number

\* The snapshot is no observation at all (ContractMismatch), and every session
\* of the context is aborted.
Unreadable ==
    \/ state = "withdrawn" /\ revisions # <<>>
    \/ Looked /\ ~ (revisions # <<>> /\ NumbersRise)

\* mutant: the revisions before the last are not looked at.
NothingSuperseded == {}
Superseded ==
    IF Looked THEN {revisions[i] : i \in 1 .. Len(revisions) - 1} ELSE {}

\* mutant: a finished contract has no revision in force.
InForceWhileOpen == IF Looked /\ state \notin Terminal THEN {frozen_digest} ELSE {}
InForce == IF Looked THEN {frozen_digest} ELSE {}

View(others, proposing) ==
    [ current    |-> InForce \cup others,
      superseded |-> Superseded,
      bootstrap  |-> Bootstraps \/ proposing,
      sound      |-> TRUE ]

Claims == {revisions[i] : i \in DOMAIN revisions} \cup {NoBinding} \cup Neighbours

--------------------------------------------------------------------------------
(***************************************************************************)
(* Properties.                                                             *)
(***************************************************************************)

\* Whatever calls and restored snapshots led to it, a state of the engine is one
\* the guardian can read: it never tears the sessions of a contract down because
\* "the core permits withdrawal only before a first freeze" (guardian.rs:474),
\* or an amendment that ran out, left a record it does not understand.
SnapshotIsReadable == ~ Unreadable

\* Traffic bound to a revision stays deliverable through review, rework, failed
\* amendments and settlement, until the next freeze; a superseded revision never
\* comes back, whatever else is negotiated; and empty bindings end with the first
\* freeze.  One exception: beside a frozen contract a negotiation loses its empty
\* binding already when both have agreed (guardian.rs:460 does not count `agreed`).
ObservationIsOneWay ==
    [][ \A others \in SUBSET Neighbours, proposing \in BOOLEAN, claim \in Claims :
          LET before == View(others, proposing)
              after  == View(others, proposing)'
          IN  /\ Permits(before, claim) /\ ~ Permits(after, claim) =>
                    \/ revisions' # revisions
                    \/ claim = NoBinding /\ others # {} /\ state' = "agreed"
              /\ claim \in {revisions[i] : i \in 1 .. Len(revisions) - 1}' =>
                    Contradicts(after, claim)
              /\ revisions # <<>> /\ ~ proposing => Contradicts(after, NoBinding) ]_vars
================================================================================
