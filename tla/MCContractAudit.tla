---------------------------- MODULE MCContractAudit ----------------------------
(* Instances of ContractAudit for TLC, of the walks over the records, and of a *)
(* guardian's budget of requests.  The three read nothing of each other, so    *)
(* they are not interleaved: each moves while the other two are at rest.       *)
EXTENDS ContractAudit, Provenance, RateBudget

CONSTANTS p, q, r, gone    \* ids, the last one of no record

SomeCollections == [{p, q, r} -> SUBSET Ids]

SomeContracts ==
    [ artifacts : {A \in SUBSET [id : {p, q, r}, by : Participants] : Cardinality(A) <= 3},
      dependencies : {D \in SUBSET [consumer : Participants, consumes : Ids]
                        : Cardinality(D) <= 3} ]

RecordsInit == AuditInit /\ NothingWalked /\ RateInit

RecordsSpec ==
    /\ RecordsInit
    /\ [][ \/ phase = "none" /\ RateInit /\ AuditNext /\ UNCHANGED <<walk, rate>>
           \/ AuditInit /\ RateInit /\ WalkNext /\ UNCHANGED <<avars, rate>>
           \/ AuditInit /\ phase = "none" /\ RateNext /\ UNCHANGED <<avars, walk>>
         ]_<<avars, walk, rate>>
================================================================================
