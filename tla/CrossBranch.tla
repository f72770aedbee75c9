------------------------------ MODULE CrossBranch ------------------------------
(***************************************************************************)
(* Cross-branch permits: OrgChart, CollaborationRequest and                *)
(* CollaborationPermit in src/src/v2/grant.rs, and the sibling             *)
(* preauthorisation of HiveProfile in src/src/v2/profile.rs, over the      *)
(* ledger of GrantLedger.                                                  *)
(*                                                                         *)
(* The chart is declared by the host, changes at any time and may be       *)
(* malformed (cyclic).  A permit is a record the parties keep; whether it  *)
(* admits a session is asked again at every admission.                     *)
(***************************************************************************)
EXTENDS GrantLedger, OrgChart

CONSTANTS
    Requests,  \* collaboration requests: [requester, peer, class, expires]
    MaxPermits \* bound: permits that are kept

ASSUME RequestConstants ==
    /\ Requests \subseteq {r \in [requester : Agents, peer : Agents,
                                  class : Scopes, expires : Times] :
                              r.requester # r.peer}
    /\ MaxPermits \in Nat

VARIABLE
    permits  \* permits issued: a request with its issuer and basis

vars == <<ledger, org, permits>>

\* The basis is the identifier of a grant, or None for the ruling of the LCA.
Permit == [requester : Agents, peer : Agents, class : Scopes, issuer : Agents,
           grant : Ids \cup {None}, expires : Times]

-----------------------------------------------------------------------------
(* Permits *)

\* mutant: only the restriction of the grant itself counts.
OwnPeerAllowed(i, a, b) ==
    \A g \in grants : (g.id = i /\ g.peer # None) => g.peer = b /\ Siblings(a, b)

\* preauthorization_allows_peer: every restriction of the chain names the peer,
\* and if there is one the two report to the same supervisor.
PeerAllowed(i, a, b) ==
    \A g \in Ancestry(i) : g.peer # None => g.peer = b /\ Siblings(a, b)

\* Open grants that cover a class, of which preauthorizes takes the first.
Covering(a, c, at) == {g \in HeldBy(a, at) : c \in Names(g)}
First(G) == CHOOSE g \in G : \A h \in G : g.id <= h.id

\* mutant: only the window of the grant itself bounds the permit.
OwnExpiry(g, r) == IF g.until < r.expires THEN g.until ELSE r.expires

\* The permit ends with the request and with every window of the chain.
Expiry(g, r) ==
    LET ends == {r.expires} \cup {h.until : h \in Ancestry(g.id)}
    IN  CHOOSE t \in ends : \A u \in ends : t <= u

NewPermit(r, issuer, grant, expires) ==
    [requester |-> r.requester, peer |-> r.peer, class |-> r.class,
     issuer |-> issuer, grant |-> grant, expires |-> expires]

Keep(p) ==
    /\ Cardinality(permits \cup {p}) <= MaxPermits
    /\ permits' = permits \cup {p}

\* mutant: whoever is found issues the permit, nobody included.
PermitByAnyone(r) ==
    /\ ChartValid
    /\ Keep(NewPermit(r, Lca(r.requester, r.peer), None, r.expires))
    /\ UNCHANGED <<ledger, org>>

\* by_lca: the lowest common supervisor rules.
PermitByLca(r) ==
    /\ ChartValid
    /\ Lca(r.requester, r.peer) # None
    /\ Keep(NewPermit(r, Lca(r.requester, r.peer), None, r.expires))
    /\ UNCHANGED <<ledger, org>>

\* by_preauthorization finds a grant for the request, and no reason against it.
Preauthorized(r, at) ==
    /\ ChartValid
    /\ Covering(r.requester, r.class, at) # {}
    /\ LET g == First(Covering(r.requester, r.class, at))
       IN  /\ g.grantor \in ChainOf(r.peer)
           /\ PeerAllowed(g.id, r.requester, r.peer)
           /\ at <= Expiry(g, r)

PermitByPreauthorization(r, at) ==
    /\ Preauthorized(r, at)
    /\ LET g == First(Covering(r.requester, r.class, at))
       IN  Keep(NewPermit(r, r.requester, g.id, Expiry(g, r)))
    /\ UNCHANGED <<ledger, org>>

\* authorizes and authorize_session: the pair in either order, the class, the
\* expiry, and the basis as it is now.
Admits(p, a, b, c, at) ==
    /\ at <= p.expires
    /\ {a, b} = {p.requester, p.peer}
    /\ p.class = c
    /\ \/ /\ p.grant = None
          /\ ChartValid
          /\ p.issuer = Lca(a, b)
       \/ /\ p.grant # None
          /\ p.issuer = p.requester
          /\ \E g \in HeldBy(p.requester, at) :
                 g.id = p.grant /\ c \in Names(g) /\ g.grantor \in ChainOf(p.peer)
          /\ PeerAllowed(p.grant, p.requester, p.peer)

-----------------------------------------------------------------------------
(* HiveProfile *)

\* Open grants under which a supervisor may preauthorise a class.
Passing(s, c, at) == {g \in HeldBy(s, at) : c \in Passable(g)}

\* What authorize_siblings issues.
SiblingGrant(i, s, child, peer, c, from, until) ==
    [id |-> i, grantor |-> s, grantee |-> child,
     scopes |-> <<[name |-> c, delegable |-> FALSE]>>,
     from |-> from, until |-> until,
     parent |-> First(Passing(s, c, from)).id, peer |-> peer]

\* authorize_siblings: judged at the time the grant becomes valid.
AuthorizeSiblings(i, s, child, peer, c, from, until) ==
    /\ Siblings(child, peer) /\ org[child] = s
    /\ ChartValid
    /\ from <= until
    /\ Passing(s, c, from) # {}
    /\ Issue(SiblingGrant(i, s, child, peer, c, from, until), from)
    /\ UNCHANGED <<org, permits>>

-----------------------------------------------------------------------------

CrossInit ==
    /\ Init
    /\ ChartInit
    /\ permits = {}

CrossNext ==
    \/ Next /\ UNCHANGED <<org, permits>>
    \/ \E r \in Requests : PermitByLca(r)
    \/ \E r \in Requests, at \in Times : PermitByPreauthorization(r, at)
    \/ \E child, peer \in Agents : \E s \in {org[child]} \cap Agents :
           \E i \in Ids, c \in Scopes, from, until \in Times :
              AuthorizeSiblings(i, s, child, peer, c, from, until)
    \/ Reorganise /\ UNCHANGED <<ledger, permits>>

CrossSpec == CrossInit /\ [][CrossNext]_vars

-----------------------------------------------------------------------------
(* Properties *)

\* Types of the chart and the permits, and of the ledger below them.
TypeOK ==
    /\ LedgerTypeOK
    /\ org \in [Agents -> Agents \cup {None}]
    /\ permits \subseteq Permit

\* Nothing but a grant that `issue` accepts, judged at some time, or a revocation
\* ever changes the ledger: not a permit, not a sibling authorisation
\* (profile.rs:71).
KeepsLedger ==
    [][\/ \E g \in grants' \cap Grant, at \in Times : Issue(g, at)
       \/ \E i \in Ids : Revoke(i)]_ledger

\* A preauthorised permit ends with the shortest window of its whole chain
\* (grant.rs:523).
NoPermitOutlivesItsChain ==
    \A p \in permits : p.grant # None =>
        \A g \in Ancestry(p.grant) : p.expires <= g.until

\* Whatever has happened to the chart and the ledger since a permit was issued,
\* it admits a session only if, at that moment, a common supervisor of the pair
\* issued it, or nothing above its grant is revoked or out of its window, every
\* layer above may pass the class on, every peer restriction of the chain is met
\* and the grantor is above the peer (grant.rs:567).
AdmissionIsBacked ==
    \A p \in permits, a, b \in Agents, at \in Times :
        Admits(p, a, b, p.class, at) =>
            IF p.grant = None
            THEN p.issuer \in Supervisors(a) \cap Supervisors(b)
            ELSE /\ Chain(p.grant) \cap revoked = {}
                 /\ \A g \in Ancestry(p.grant) :
                        /\ at \in g.from .. g.until
                        /\ g.id # p.grant => p.class \in Passable(g)
                        /\ g.peer # None => g.peer = p.peer /\ Siblings(a, b)
                        /\ g.id = p.grant => g.grantor \in ChainOf(p.peer)

-----------------------------------------------------------------------------
(* A statement of the comments that the code does not keep *)

\* profile.rs:66: after a supervisor has authorised a pair of siblings "the named
\* sibling pair can form collaboration sessions for a task class without a
\* per-session LCA ruling": while the grant is open and the chart unchanged, a
\* request of the pair is preauthorised.
SiblingPairsArePreauthorized ==
    \A g \in grants, r \in Requests, at \in Times :
        (/\ ChartValid
         /\ g.peer # None /\ g.grantor = org[g.grantee]
         /\ r.requester = g.grantee /\ r.peer = g.peer /\ r.class \in Names(g)
         /\ PeerAllowed(g.id, r.requester, r.peer)
         /\ IsOpen(g.id, at) /\ at <= r.expires)
        => Preauthorized(r, at)
=============================================================================
