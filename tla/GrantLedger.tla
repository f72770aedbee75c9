------------------------------ MODULE GrantLedger ------------------------------
(***************************************************************************)
(* Capability grants: GrantLedger in src/src/v2/grant.rs.                  *)
(*                                                                         *)
(* A ledger records immutable grants, each descending from a parent or     *)
(* chartered, and revocations.  Whether a grant is open is never stored:   *)
(* every question walks the chain to the charter.  Every call carries the  *)
(* caller's own time, so calls may come with times in any order.           *)
(*                                                                         *)
(* Identifiers are numbers, compared as the strings are; they are chosen   *)
(* by the issuer, not in order of issue.  A chain is the least set of      *)
(* identifiers that is closed under parents, which is what the loops that  *)
(* follow `parent` visit.                                                  *)
(***************************************************************************)
EXTENDS AgentUrns, Naturals, Sequences

CONSTANTS
    Ids,        \* grant identifiers
    Deployment, \* DEPLOYMENT_CHARTERER, no agent
    Scopes,     \* scope names
    Times,      \* timestamps
    Offered     \* bound: the grants that are ever presented to `issue`

ASSUME GrantConstants ==
    /\ Ids \subseteq Nat /\ Times \subseteq Nat
    /\ Deployment \notin Agents /\ None \notin Ids

ScopeElement == [name : Scopes, delegable : BOOLEAN]

\* What check_shape lets pass.
Grant ==
    {g \in [id      : Ids,
            grantor : Agents \cup {Deployment},
            grantee : Agents,
            scopes  : Seq(ScopeElement),
            from    : Times,
            until   : Times,
            parent  : Ids \cup {None},
            peer    : Agents \cup {None}] :
        /\ g.grantor = Deployment => g.parent = None
        /\ g.from <= g.until}

ASSUME OfferedShape == Offered \subseteq Grant

VARIABLES
    grants,  \* GrantLedger.grants
    revoked  \* GrantLedger.revoked

ledger == <<grants, revoked>>

Issued == {g.id : g \in grants}

\* Names a grant holds.
Names(g) == {g.scopes[i].name : i \in DOMAIN g.scopes}

\* Names that some element marks delegable.
Passable(g) == {n \in Names(g) : \E i \in DOMAIN g.scopes :
                    g.scopes[i] = [name |-> n, delegable |-> TRUE]}

\* mutant: holding a scope is enough to delegate it.
HeldIsDelegable(g) == Names(g)

\* Names a grant may pass on; of elements with one name the last counts.
Delegable(g) ==
    {n \in Passable(g) :
        \E i \in DOMAIN g.scopes :
            /\ g.scopes[i] = [name |-> n, delegable |-> TRUE]
            /\ \A j \in DOMAIN g.scopes : j > i => g.scopes[j].name # n}

-----------------------------------------------------------------------------
(* Chains *)

ParentClosed(S) == \A g \in grants : (g.id \in S /\ g.parent # None) => g.parent \in S

\* A grant and everything it descends from.
Chain(i) == {x \in Ids : \A S \in SUBSET Ids : (i \in S /\ ParentClosed(S)) => x \in S}

Ancestry(i) == {g \in grants : g.id \in Chain(i)}

\* mutant: only the grant itself is looked at.
OwnWindow(i, at) ==
    /\ i \in Issued
    /\ \A g \in grants : g.id = i => g.id \notin revoked /\ g.from <= at /\ at <= g.until

\* is_open: no grant of the chain is revoked or outside its window.
IsOpen(i, at) ==
    /\ i \in Issued
    /\ \A g \in Ancestry(i) : g.id \notin revoked /\ g.from <= at /\ at <= g.until

HeldBy(a, at) == {g \in grants : g.grantee = a /\ IsOpen(g.id, at)}

-----------------------------------------------------------------------------
(* Operations *)

\* The inviolable rule: a charter, or within what an open parent may pass on.
FitsParent(g, at) ==
    \/ g.parent = None
    \/ \E p \in grants :
           /\ p.id = g.parent
           /\ IsOpen(p.id, at)
           /\ p.grantee = g.grantor
           /\ Names(g) \subseteq Delegable(p)

\* An identifier names one grant: presented again it is accepted without
\* effect, or refused when the content differs.
Taken(g) == g.id \in Issued

Issue(g, at) ==
    /\ ~ Taken(g)
    /\ FitsParent(g, at)
    /\ grants' = grants \cup {g}
    /\ UNCHANGED revoked

Revoke(i) ==
    /\ i \in Issued
    /\ revoked' = revoked \cup {i}
    /\ UNCHANGED grants

Init == grants = {} /\ revoked = {}

Next ==
    \/ \E g \in Offered, at \in Times : Issue(g, at)
    \/ \E i \in Ids : Revoke(i)

Spec == Init /\ [][Next]_ledger

-----------------------------------------------------------------------------
(* Properties *)

\* The ledger's fields have their types, and an identifier names one grant.
LedgerTypeOK ==
    /\ grants \subseteq Grant
    /\ revoked \subseteq Issued
    /\ \A g, h \in grants : g.id = h.id => g = h

\* Authority only shrinks on the way down, over any number of layers: every
\* ancestor may pass on everything the grant holds (HACP-2.0-draft.md section
\* 8.2, grant.rs:223).
AuthorityFlowsDown ==
    \A g \in grants : \A h \in Ancestry(g.id) \ {g} : Names(g) \subseteq Passable(h)

\* Every chain climbs through issued grants to charters without a cycle, so the
\* Cycle and UnknownGrant errors of is_open cannot occur in a ledger: among the
\* grants of any part of it there is one whose parent is not in that part.
ChainsEnd ==
    /\ \A g \in grants : g.parent # None => g.parent \in Issued
    /\ \A S \in SUBSET Issued :
           S # {} => \E g \in grants : g.id \in S /\ g.parent \notin S

\* What was revoked, or descends from what was revoked, is never open again,
\* at any time a caller may ask about and whatever is issued later
\* (grant.rs:277).
ClosedForGood ==
    [][ledger' # ledger =>
          \A i \in Issued :
             Chain(i) \cap revoked # {} => \A at \in Times : ~ IsOpen(i, at)']_ledger
=============================================================================
