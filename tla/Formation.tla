------------------------------- MODULE Formation -------------------------------
(***************************************************************************)
(* How contracts come about: Contract::propose in src/src/v2/contract.rs,  *)
(* over a session (BilateralSession), the grants and the chart             *)
(* (CrossBranch).  All three are consulted once, when the contract is      *)
(* proposed, and go on changing afterwards.                                *)
(***************************************************************************)
EXTENDS CrossBranch, BilateralSession

CONSTANT MaxContracts    \* bound: contracts proposed in the session

ASSUME FormationConstants == MaxContracts \in Nat

VARIABLE formed    \* contracts, with the time they were proposed at

world == <<vars, talk, formed>>

\* The chain of an agent from its root down to itself.
PathTo(a) ==
    LET height == CHOOSE n \in Levels : Above(a, n) = None /\ Above(a, n - 1) # None
    IN  [i \in 1 .. height |-> Above(a, height - i)]

\* The other participant: delegator if `who` performs the task.
Counterparty(who) == CHOOSE a \in SessionParties : a # who

Contract == [owner : SessionParties, delegated : BOOLEAN, grant : Ids \cup {None},
             path : Seq(Agents), at : Times \cup {None}]

\* mutant: a grant between the two will do, whoever performs the task.
GrantOfThePair(g, owner, at) ==
    IsOpen(g.id, at) /\ {g.grantee, g.grantor} = SessionParties

\* The grant of a delegation is open and names the parties by their roles.
GrantFits(g, owner, at) ==
    IsOpen(g.id, at) /\ g.grantee = owner /\ g.grantor = Counterparty(owner)

Form(contract) ==
    /\ session = "Active"
    /\ Cardinality(formed \cup {contract}) <= MaxContracts
    /\ formed' = formed \cup {contract}
    /\ UNCHANGED <<vars, talk>>

\* propose, for a peer contract: nothing but the session and the owner counts.
ProposeAmongPeers(owner) ==
    Form([owner |-> owner, delegated |-> FALSE, grant |-> None, path |-> <<>>, at |-> None])

\* propose, for a delegation: the declared path must be the delegator's chain.
ProposeDelegation(owner, g, at) ==
    /\ GrantFits(g, owner, at)
    /\ Rooted(g.grantor)
    /\ Form([owner |-> owner, delegated |-> TRUE, grant |-> g.id,
             path |-> PathTo(g.grantor), at |-> at])

FormationInit == CrossInit /\ SessionInit /\ formed = {}

\* Bound: permits and sessions know nothing of each other and are not explored
\* together; both are with everything that becomes of the ledger and the chart.
Untouched == session = "Opening" /\ declared = {}

FormationNext ==
    \/ CrossNext /\ (permits' = {} \/ Untouched) /\ UNCHANGED <<talk, formed>>
    \/ SessionNext /\ permits = {} /\ UNCHANGED <<vars, formed>>
    \/ \E owner \in SessionParties : permits = {} /\ ProposeAmongPeers(owner)
    \/ \E owner \in SessionParties, g \in grants, at \in Times :
          permits = {} /\ ProposeDelegation(owner, g, at)

FormationSpec == FormationInit /\ [][FormationNext]_world

-----------------------------------------------------------------------------
(* Properties *)

\* Types of the session and the contracts, and of the permits below them.
FormationTypeOK ==
    /\ TypeOK
    /\ SessionTypeOK
    /\ formed \subseteq Contract

\* However the chart, the grants and the session have changed since, a delegation
\* rests on one grant, immutable and in the ledger, from its delegator to its
\* performer, every layer above which held and could pass on all it delegates at
\* the time the contract was proposed; and its escalation path climbs from the
\* delegator without naming anybody twice (contract.rs:265).
DelegationsStandOnGrants ==
    \A k \in formed : k.delegated =>
        \E g \in grants :
            /\ g.id = k.grant
            /\ {g.grantee, g.grantor} = SessionParties /\ g.grantee = k.owner
            /\ \A h \in Ancestry(g.id) :
                   k.at \in h.from .. h.until /\ (h # g => Names(g) \subseteq Passable(h))
            /\ k.path[Len(k.path)] = g.grantor
            /\ \A i, j \in DOMAIN k.path : k.path[i] = k.path[j] => i = j

\* Sessions are never reopened (session.rs:18): whatever is called afterwards, an
\* ended session accepts nobody, lets nobody in, declares nothing, forms nothing.
SessionsStayClosed ==
    [][(session \in Ended) => UNCHANGED <<talk, formed>>]_world
================================================================================
