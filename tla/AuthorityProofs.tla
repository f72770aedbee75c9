---------------------------- MODULE AuthorityProofs ----------------------------
(***************************************************************************)
(* Proofs about GrantLedger, CrossBranch and Formation, for every set of   *)
(* identifiers, agents, charts (well formed or not), scopes and times.     *)
(*                                                                         *)
(* A chain is a least closed set, so no induction over its length is       *)
(* needed: to show that a chain lies in a set it is enough that the set is *)
(* closed.  The key fact is ChainStable: issuing a grant changes no chain, *)
(* because nothing that was issued descends from a new identifier.  The    *)
(* permits use the ledger only through its interface (CrossStep), and the  *)
(* contracts and their session leave it alone (FormationIsCross), so the   *)
(* invariant carries over; and what is said of a permit or a contract when *)
(* it is made stays true, since the chain below it stays what it was.      *)
(***************************************************************************)
EXTENDS Formation, OrgChartProofs

-----------------------------------------------------------------------------
(* The ledger *)

LedgerInv == LedgerTypeOK /\ AuthorityFlowsDown /\ ChainsEnd

\* A step of the ledger, whoever takes it.
LedgerStep ==
    \/ \E g \in grants' \cap Grant, at \in Times : Issue(g, at)
    \/ \E i \in Ids : Revoke(i)

-----------------------------------------------------------------------------
(* Chains *)

\* A chain lies in every closed set of identifiers that holds its start.
LEMMA ChainInClosed ==
    ASSUME NEW i, NEW S \in SUBSET Ids, i \in S, ParentClosed(S)
    PROVE  Chain(i) \subseteq S
BY DEF Chain

\* A chain holds its start.
LEMMA ChainStart == ASSUME NEW i \in Ids PROVE i \in Chain(i)
BY DEF Chain

\* Everything a grant descends from has been issued.
LEMMA ChainIssued ==
    ASSUME LedgerInv, NEW i \in Issued
    PROVE  Chain(i) \subseteq Issued
<1>1. Issued \in SUBSET Ids
  BY DEF LedgerInv, LedgerTypeOK, Grant, Issued
<1>2. ParentClosed(Issued)
  BY DEF ParentClosed, Issued, LedgerInv, ChainsEnd
<1> QED BY <1>1, <1>2, ChainInClosed

\* Issuing a grant changes no chain.
LEMMA ChainStable ==
    ASSUME LedgerInv, NEW g \in Grant, NEW at \in Times, Issue(g, at), NEW i \in Issued
    PROVE  Chain(i)' = Chain(i)
<1>1. ASSUME NEW x \in Chain(i)' PROVE x \in Chain(i)
  <2> SUFFICES ASSUME NEW S \in SUBSET Ids, i \in S, ParentClosed(S)
               PROVE  x \in S
    BY <1>1 DEF Chain
  <2> PICK T : T = S \cap Issued
    OBVIOUS
  <2>1. T \in SUBSET Ids /\ i \in T
    OBVIOUS
  <2>2. ParentClosed(T)'
    <3> SUFFICES ASSUME NEW h \in grants', h.id \in T, h.parent # None
                 PROVE  h.parent \in T
      BY DEF ParentClosed
    <3>1. h \in grants
      BY DEF Issue, Taken
    <3>2. h.parent \in S
      BY <3>1 DEF ParentClosed
    <3>3. h.parent \in Issued
      BY <3>1 DEF LedgerInv, ChainsEnd
    <3> QED BY <3>2, <3>3
  <2> QED BY <1>1, <2>1, <2>2 DEF Chain
<1>2. ASSUME NEW x \in Chain(i) PROVE x \in Chain(i)'
  <2> SUFFICES ASSUME NEW S \in SUBSET Ids, i \in S, ParentClosed(S)'
               PROVE  x \in S
    BY <1>2 DEF Chain
  <2>1. ParentClosed(S)
    BY DEF ParentClosed, Issue
  <2> QED BY <1>2, <2>1 DEF Chain
<1> QED BY <1>1, <1>2

\* The chain of a new grant is the grant and the chain of its parent.
LEMMA NewChain ==
    ASSUME LedgerInv, NEW g \in Grant, NEW at \in Times, Issue(g, at)
    PROVE  /\ g.parent = None => Chain(g.id)' \subseteq {g.id}
           /\ g.parent # None => Chain(g.id)' \subseteq {g.id} \cup Chain(g.parent)
<1>1. g.id \in Ids
  BY DEF Grant
<1>2. ASSUME NEW h \in grants', h # g PROVE h \in grants /\ h.id # g.id
  BY <1>2 DEF Issue, Taken, Issued
<1>3. CASE g.parent = None
  <2>1. ParentClosed({g.id})'
    BY <1>2, <1>3 DEF ParentClosed
  <2> QED BY <1>1, <1>3, <2>1 DEF Chain
<1>4. CASE g.parent # None
  <2> PICK T : T = {g.id} \cup Chain(g.parent)
    OBVIOUS
  <2>1. g.parent \in Ids
    BY <1>4 DEF Grant
  <2>2. T \in SUBSET Ids /\ g.parent \in Chain(g.parent)
    BY <1>1, <2>1, ChainStart DEF Chain
  <2>3. ParentClosed(T)'
    <3> SUFFICES ASSUME NEW h \in grants', h.id \in T, h.parent # None
                 PROVE  h.parent \in T
      BY DEF ParentClosed
    <3>1. CASE h = g
      BY <2>2, <3>1
    <3>2. CASE h # g
      <4>1. h \in grants /\ h.id \in Chain(g.parent)
        BY <1>2, <3>2
      <4>2. h.parent \in Ids
        BY <4>1 DEF LedgerInv, LedgerTypeOK, Grant
      <4> QED BY <4>1, <4>2 DEF Chain, ParentClosed
    <3> QED BY <3>1, <3>2
  <2> QED BY <1>4, <2>2, <2>3 DEF Chain
<1> QED BY <1>3, <1>4

-----------------------------------------------------------------------------
(* The invariant *)

LEMMA LedgerInitInv == Init => LedgerInv
BY DEF Init, LedgerInv, LedgerTypeOK, AuthorityFlowsDown, ChainsEnd, Issued

LEMMA IssueStep ==
    ASSUME LedgerInv, NEW g \in Grant, NEW at \in Times, Issue(g, at)
    PROVE  LedgerInv'
<1> USE DEF LedgerInv
<1>1. /\ grants' = grants \cup {g} /\ revoked' = revoked
      /\ g.id \notin Issued
      /\ Issued' = Issued \cup {g.id}
  BY DEF Issue, Taken, Issued
<1>2. LedgerTypeOK'
  BY <1>1 DEF LedgerTypeOK, Issued
<1>3. AuthorityFlowsDown'
  <2> SUFFICES ASSUME NEW k \in grants', NEW h \in Ancestry(k.id)', h # k
               PROVE  Names(k) \subseteq Passable(h)
    BY DEF AuthorityFlowsDown, Names, Passable
  <2>1. h \in grants' /\ h.id \in Chain(k.id)'
    BY DEF Ancestry
  <2>2. CASE k # g
    <3>1. k \in grants /\ k.id \in Issued
      BY <1>1, <2>2 DEF Issued
    <3>2. h.id \in Chain(k.id)
      BY <2>1, <3>1, ChainStable
    <3>3. h.id \in Issued
      BY <3>1, <3>2, ChainIssued
    <3>4. h \in grants
      BY <1>1, <2>1, <3>3
    <3> QED BY <2>2, <3>1, <3>2, <3>4 DEF AuthorityFlowsDown, Ancestry
  <2>3. CASE k = g
    <3>1. h \in grants /\ h.id # g.id
      BY <1>1, <2>1, <2>3 DEF Issued
    <3>2. g.parent # None /\ h.id \in Chain(g.parent)
      BY <2>1, <2>3, <3>1, NewChain
    <3>3. PICK p \in grants : p.id = g.parent /\ Names(g) \subseteq Delegable(p)
      BY <3>2 DEF Issue, FitsParent
    <3>4. Delegable(p) \subseteq Passable(p) /\ Passable(p) \subseteq Names(p)
      BY DEF Delegable, Passable
    <3>5. CASE h = p
      BY <2>3, <3>3, <3>4, <3>5
    <3>6. CASE h # p
      <4>1. Names(p) \subseteq Passable(h)
        BY <3>1, <3>2, <3>3, <3>6 DEF AuthorityFlowsDown, Ancestry
      <4> QED BY <2>3, <3>3, <3>4, <4>1
    <3> QED BY <3>5, <3>6
  <2> QED BY <2>2, <2>3
<1>4. ChainsEnd'
  <2>1. \A h \in grants' : h.parent # None => h.parent \in Issued
    BY <1>1 DEF ChainsEnd, Issue, FitsParent, Issued
  <2>2. ASSUME NEW S \in SUBSET Issued', S # {}
        PROVE  \E h \in grants' : h.id \in S /\ h.parent \notin S
    <3> DEFINE T == S \ {g.id}
    <3>1. T \in SUBSET Issued
      BY <1>1
    <3>2. CASE T = {}
      <4>1. S = {g.id}
        BY <2>2, <3>2
      <4>2. g.parent # g.id
        BY <1>1, <2>1, GrantConstants DEF Grant
      <4> QED BY <1>1, <4>1, <4>2
    <3>3. CASE T # {}
      <4>1. PICK h \in grants : h.id \in T /\ h.parent \notin T
        BY <3>1, <3>3 DEF ChainsEnd
      <4>2. h.parent # g.id
        BY <1>1, <2>1, GrantConstants DEF Grant
      <4> QED BY <1>1, <4>1, <4>2
    <3> QED BY <3>2, <3>3
  <2> QED BY <1>1, <2>1, <2>2 DEF ChainsEnd
<1> QED BY <1>2, <1>3, <1>4

\* Everything but the revocations depends on `grants` alone.
LEMMA SameGrants ==
    ASSUME LedgerInv, grants' = grants, revoked' \in SUBSET Issued
    PROVE  LedgerInv' /\ \A i : Chain(i)' = Chain(i)
BY DEF LedgerInv, LedgerTypeOK, AuthorityFlowsDown, ChainsEnd, Issued, Ancestry,
       Chain, ParentClosed, Names, Passable

LEMMA RevokeStep ==
    ASSUME LedgerInv, NEW i \in Ids, Revoke(i)
    PROVE  LedgerInv' /\ \A j : Chain(j)' = Chain(j)
<1>1. grants' = grants /\ revoked' \in SUBSET Issued
  BY DEF Revoke, LedgerInv, LedgerTypeOK
<1> QED BY <1>1, SameGrants

\* What every step, and every step that leaves the ledger alone, does.
LEMMA StepKeepsChains ==
    ASSUME LedgerInv, [LedgerStep]_ledger
    PROVE  /\ LedgerInv'
           /\ grants \subseteq grants' /\ revoked \subseteq revoked'
           /\ \A i \in Issued : Chain(i)' = Chain(i)
<1>1. ASSUME NEW g \in grants' \cap Grant, NEW at \in Times, Issue(g, at)
      PROVE  /\ LedgerInv'
             /\ grants \subseteq grants' /\ revoked \subseteq revoked'
             /\ \A i \in Issued : Chain(i)' = Chain(i)
  BY <1>1, IssueStep, ChainStable DEF Issue
<1>2. ASSUME NEW i \in Ids, Revoke(i)
      PROVE  /\ LedgerInv'
             /\ grants \subseteq grants' /\ revoked \subseteq revoked'
             /\ \A j \in Issued : Chain(j)' = Chain(j)
  BY <1>2, RevokeStep DEF Revoke
<1>3. ASSUME UNCHANGED ledger
      PROVE  /\ LedgerInv'
             /\ grants \subseteq grants' /\ revoked \subseteq revoked'
             /\ \A i \in Issued : Chain(i)' = Chain(i)
  <2>1. grants' = grants /\ revoked' = revoked
    BY <1>3 DEF ledger
  <2>2. revoked' \in SUBSET Issued
    BY <2>1 DEF LedgerInv, LedgerTypeOK
  <2> QED BY <2>1, <2>2, SameGrants
<1> QED BY <1>1, <1>2, <1>3 DEF LedgerStep

LEMMA ClosedStep ==
    ASSUME LedgerInv, [LedgerStep]_ledger
    PROVE  \A i \in Issued : Chain(i) \cap revoked # {} => \A at \in Times : ~ IsOpen(i, at)'
<1> SUFFICES ASSUME NEW i \in Issued, NEW x \in Chain(i), x \in revoked, NEW at \in Times
             PROVE  ~ IsOpen(i, at)'
  OBVIOUS
<1>1. x \in Chain(i)' /\ x \in revoked'
  BY StepKeepsChains
<1>2. PICK g \in grants : g.id = x
  BY ChainIssued DEF Issued
<1>3. g \in Ancestry(i)'
  BY <1>1, <1>2, StepKeepsChains DEF Ancestry
<1> QED BY <1>1, <1>2, <1>3 DEF IsOpen

LEMMA NextIsStep == ASSUME LedgerInv, [Next]_ledger PROVE [LedgerStep]_ledger
BY OfferedShape DEF Next, LedgerStep, Issue, ledger

-----------------------------------------------------------------------------
(* Theorems *)

\* The inductive invariant of the ledger.
THEOREM LedgerInvariant == Spec => []LedgerInv
<1>1. LedgerInv /\ [Next]_ledger => LedgerInv'
  BY NextIsStep, StepKeepsChains
<1> QED BY <1>1, LedgerInitInv, PTL DEF Spec

\* An identifier names one grant, which never changes its type (`issue`,
\* grant.rs:228).
THEOREM LedgerTypes == Spec => []LedgerTypeOK
<1>1. LedgerInv => LedgerTypeOK
  BY DEF LedgerInv
<1> QED BY <1>1, LedgerInvariant, PTL

\* The inviolable rule holds over whole chains (grant.rs:7).
THEOREM Attenuation == Spec => []AuthorityFlowsDown
<1>1. LedgerInv => AuthorityFlowsDown
  BY DEF LedgerInv
<1> QED BY <1>1, LedgerInvariant, PTL

\* Walking a chain ends in a charter (is_open, grant.rs:277).
THEOREM ChainsAreFinite == Spec => []ChainsEnd
<1>1. LedgerInv => ChainsEnd
  BY DEF LedgerInv
<1> QED BY <1>1, LedgerInvariant, PTL

\* Revocation closes all there is below a grant, for good (grant.rs:266).
THEOREM RevocationIsFinal == Spec => ClosedForGood
<1>1. LedgerInv /\ [Next]_ledger =>
        [\A i \in Issued :
            Chain(i) \cap revoked # {} => \A at \in Times : ~ IsOpen(i, at)']_ledger
  BY NextIsStep, ClosedStep
<1> QED BY <1>1, LedgerInvariant, PTL DEF Spec, ClosedForGood

-----------------------------------------------------------------------------
(* Permits over a ledger *)

Founded == \A p \in permits : p.grant # None => p.grant \in Issued

CrossInv == LedgerInv /\ TypeOK /\ Founded /\ NoPermitOutlivesItsChain

-----------------------------------------------------------------------------
(* First grants and expiry *)

\* The grant that preauthorizes finds is one of those that cover the class.
LEMMA FirstIsOne ==
    ASSUME LedgerInv, NEW G \in SUBSET grants, G # {} PROVE First(G) \in G
<1> DEFINE T == {g.id : g \in G}
<1>1. \A g \in G : g.id \in Nat
  BY GrantConstants DEF LedgerInv, LedgerTypeOK, Grant
<1>2. PICK g \in G : TRUE
  OBVIOUS
<1>3. T \in SUBSET Nat /\ T # {}
  BY <1>1, <1>2
<1>4. PICK t \in T : \A u \in T : t <= u
  BY <1>3, LeastNumber
<1>5. \E x \in G : \A h \in G : x.id <= h.id
  BY <1>4
<1> QED BY <1>5 DEF First

\* The expiry is a time, and no later than any window of the chain.
LEMMA ExpiryBound ==
    ASSUME LedgerInv, NEW g \in grants, NEW r, r.expires \in Times
    PROVE  /\ Expiry(g, r) \in Times
           /\ \A h \in Ancestry(g.id) : Expiry(g, r) <= h.until
<1> DEFINE ends == {r.expires} \cup {h.until : h \in Ancestry(g.id)}
<1>1. ends \in SUBSET Times /\ ends # {}
  BY DEF Ancestry, LedgerInv, LedgerTypeOK, Grant
<1>2. PICK t \in ends : \A u \in ends : t <= u
  BY <1>1, LeastNumber, GrantConstants
<1>3. Expiry(g, r) \in ends /\ \A u \in ends : Expiry(g, r) <= u
  BY <1>2 DEF Expiry
<1> QED BY <1>1, <1>3

-----------------------------------------------------------------------------
(* The ledger below *)

LEMMA SiblingGrantType ==
    ASSUME NEW i \in Ids, NEW s \in Agents, NEW child \in Agents, NEW peer \in Agents,
           NEW c \in Scopes, NEW from \in Times, NEW until \in Times, from <= until,
           SiblingGrant(i, s, child, peer, c, from, until).parent \in Ids
    PROVE  SiblingGrant(i, s, child, peer, c, from, until) \in Grant
<1>1. <<[name |-> c, delegable |-> FALSE]>> \in Seq(ScopeElement)
  BY DEF ScopeElement
<1>2. s # Deployment
  BY GrantConstants
<1> QED BY <1>1, <1>2 DEF SiblingGrant, Grant

LEMMA CrossStep == ASSUME LedgerInv, [CrossNext]_vars PROVE [LedgerStep]_ledger
<1>1. CASE Next
  BY <1>1, NextIsStep
<1>2. ASSUME NEW i \in Ids, NEW s \in Agents, NEW child \in Agents, NEW peer \in Agents,
             NEW c \in Scopes, NEW from \in Times, NEW until \in Times,
             AuthorizeSiblings(i, s, child, peer, c, from, until)
      PROVE  LedgerStep
  <2> DEFINE g == SiblingGrant(i, s, child, peer, c, from, until)
  <2>1. Issue(g, from) /\ from <= until
    BY <1>2 DEF AuthorizeSiblings
  <2>2. First(Passing(s, c, from)) \in Passing(s, c, from)
    BY <1>2, FirstIsOne DEF AuthorizeSiblings, Passing, HeldBy
  <2>3. g.parent \in Ids
    BY <2>2 DEF SiblingGrant, Passing, HeldBy, LedgerInv, LedgerTypeOK, Grant
  <2>4. g \in Grant
    BY <2>1, <2>3, SiblingGrantType
  <2> HIDE DEF g
  <2>5. g \in grants'
    BY <2>1 DEF Issue
  <2> QED BY <2>1, <2>4, <2>5 DEF LedgerStep
<1>3. CASE UNCHANGED ledger
  BY <1>3
<1> QED BY <1>1, <1>2, <1>3
     DEF CrossNext, vars, PermitByLca, PermitByPreauthorization, Reorganise

-----------------------------------------------------------------------------
(* Permits *)

\* Permits that are there stay as good as they were.
LEMMA OldPermits ==
    ASSUME CrossInv, [LedgerStep]_ledger, NEW p \in permits, p.grant # None
    PROVE  p.grant \in Issued' /\ \A g \in Ancestry(p.grant)' : p.expires <= g.until
<1>1. p.grant \in Issued
  BY DEF CrossInv, Founded
<1>2. /\ LedgerInv /\ LedgerInv' /\ grants \subseteq grants'
      /\ Chain(p.grant)' = Chain(p.grant)
  BY <1>1, StepKeepsChains DEF CrossInv
<1>3. ASSUME NEW g \in Ancestry(p.grant)' PROVE g \in Ancestry(p.grant)
  <2>1. g \in grants' /\ g.id \in Chain(p.grant)
    BY <1>2 DEF Ancestry
  <2>2. PICK h \in grants : h.id = g.id
    BY <1>1, <1>2, <2>1, ChainIssued DEF Issued
  <2>3. h = g
    BY <1>2, <2>1, <2>2 DEF LedgerInv, LedgerTypeOK
  <2> QED BY <2>1, <2>2, <2>3 DEF Ancestry
<1> QED BY <1>1, <1>2, <1>3 DEF CrossInv, NoPermitOutlivesItsChain, Issued

\* A new permit is well formed, issued under a grant of the ledger and ends in time.
LEMMA NewPermits ==
    ASSUME CrossInv, NEW r \in Requests,
           \/ PermitByLca(r)
           \/ \E at \in Times : PermitByPreauthorization(r, at)
    PROVE  /\ UNCHANGED <<ledger, org>>
           /\ \A p \in permits' \ permits :
                  /\ p \in Permit
                  /\ p.grant # None => /\ p.grant \in Issued
                                       /\ \A g \in Ancestry(p.grant) : p.expires <= g.until
<1>1. r.requester \in Agents /\ r.peer \in Agents /\ r.class \in Scopes /\ r.expires \in Times
  BY ChartConstants, RequestConstants
<1>2. CASE PermitByLca(r)
  <2> DEFINE p == NewPermit(r, Lca(r.requester, r.peer), None, r.expires)
  <2>1. permits' = permits \cup {p} /\ UNCHANGED <<ledger, org>>
    BY <1>2 DEF PermitByLca, Keep
  <2>2. Lca(r.requester, r.peer) \in Agents
    BY <1>2, LcaIsCommon DEF PermitByLca, Supervisors
  <2>3. p \in Permit /\ p.grant = None
    BY <1>1, <2>2 DEF NewPermit, Permit
  <2> QED BY <2>1, <2>3
<1>3. ASSUME NEW at \in Times, PermitByPreauthorization(r, at)
      PROVE  /\ UNCHANGED <<ledger, org>>
             /\ \A p \in permits' \ permits :
                    /\ p \in Permit
                    /\ p.grant # None => /\ p.grant \in Issued
                                         /\ \A g \in Ancestry(p.grant) : p.expires <= g.until
  <2> DEFINE G == Covering(r.requester, r.class, at)
             g == First(G)
             p == NewPermit(r, r.requester, g.id, Expiry(g, r))
  <2>1. permits' = permits \cup {p} /\ UNCHANGED <<ledger, org>>
    BY <1>3 DEF PermitByPreauthorization, Keep
  <2>2. g \in grants
    BY <1>3, FirstIsOne
       DEF PermitByPreauthorization, Preauthorized, Covering, HeldBy, CrossInv
  <2> HIDE DEF g
  <2>3. g.id \in Ids /\ g.id \in Issued
    BY <2>2 DEF CrossInv, LedgerInv, LedgerTypeOK, Grant, Issued
  <2>4. Expiry(g, r) \in Times /\ \A h \in Ancestry(g.id) : Expiry(g, r) <= h.until
    BY <1>1, <2>2, ExpiryBound DEF CrossInv
  <2>5. p \in Permit /\ p.grant = g.id /\ p.expires = Expiry(g, r)
    BY <1>1, <2>3, <2>4 DEF NewPermit, Permit
  <2> HIDE DEF p
  <2> QED BY <2>1, <2>3, <2>4, <2>5
<1> QED BY <1>2, <1>3

-----------------------------------------------------------------------------
(* The invariant *)

LEMMA CrossInitInv == CrossInit => CrossInv
BY LedgerInitInv, ChartConstants, RequestConstants
   DEF CrossInit, ChartInit, CrossInv, TypeOK, Founded, NoPermitOutlivesItsChain, LedgerInv

LEMMA CrossStepInv == CrossInv /\ [CrossNext]_vars => CrossInv'
<1> SUFFICES ASSUME CrossInv, [CrossNext]_vars PROVE CrossInv'
  OBVIOUS
<1>1. [LedgerStep]_ledger /\ LedgerInv /\ LedgerInv'
  BY CrossStep, StepKeepsChains DEF CrossInv
<1>2. \A p \in permits : p.grant # None =>
          p.grant \in Issued' /\ \A g \in Ancestry(p.grant)' : p.expires <= g.until
  BY <1>1, OldPermits
<1>3. org' \in [Agents -> Agents \cup {None}]
  BY ChartConstants, RequestConstants
     DEF CrossInv, TypeOK, CrossNext, vars, PermitByLca, PermitByPreauthorization,
         AuthorizeSiblings, Reorganise
<1>4. CASE permits' = permits
  BY <1>1, <1>2, <1>3, <1>4
     DEF CrossInv, TypeOK, Founded, NoPermitOutlivesItsChain, LedgerInv
<1>5. ASSUME NEW r \in Requests,
             \/ PermitByLca(r)
             \/ \E at \in Times : PermitByPreauthorization(r, at)
      PROVE  CrossInv'
  <2>1. /\ grants' = grants /\ revoked' = revoked
        /\ \A p \in permits' \ permits :
               /\ p \in Permit
               /\ p.grant # None => /\ p.grant \in Issued
                                    /\ \A g \in Ancestry(p.grant) : p.expires <= g.until
    BY <1>5, NewPermits DEF ledger
  <2>2. Issued' = Issued /\ \A i : Ancestry(i)' = Ancestry(i)
    BY <2>1 DEF Issued, Ancestry, Chain, ParentClosed
  <2>3. \A p \in permits' :
            /\ p \in Permit
            /\ p.grant # None => /\ p.grant \in Issued'
                                 /\ \A g \in Ancestry(p.grant)' : p.expires <= g.until
    BY <1>2, <2>1, <2>2 DEF CrossInv, TypeOK
  <2> QED BY <1>1, <1>3, <2>3
       DEF CrossInv, TypeOK, Founded, NoPermitOutlivesItsChain, LedgerInv
<1> QED BY <1>4, <1>5 DEF CrossNext, vars, AuthorizeSiblings, Reorganise

\* What an admission rests on follows from the invariant.
LEMMA Backed == CrossInv => AdmissionIsBacked
<1> SUFFICES ASSUME CrossInv, NEW p \in permits, NEW a \in Agents, NEW b \in Agents,
                    NEW at \in Times, Admits(p, a, b, p.class, at)
             PROVE  IF p.grant = None
                    THEN p.issuer \in Supervisors(a) \cap Supervisors(b)
                    ELSE /\ Chain(p.grant) \cap revoked = {}
                         /\ \A g \in Ancestry(p.grant) :
                                /\ at \in g.from .. g.until
                                /\ g.id # p.grant => p.class \in Passable(g)
                                /\ g.peer # None => g.peer = p.peer /\ Siblings(a, b)
                                /\ g.id = p.grant => g.grantor \in ChainOf(p.peer)
  BY DEF AdmissionIsBacked
<1>1. p \in Permit /\ LedgerInv
  BY DEF CrossInv, TypeOK
<1>2. CASE p.grant = None
  <2>1. p.issuer = Lca(a, b) /\ p.issuer \in Agents
    BY <1>1, <1>2 DEF Admits, Permit
  <2> QED BY <1>2, <2>1, LcaIsCommon, AgentConstants
<1>3. CASE p.grant # None
  <2>1. PICK k \in grants : /\ IsOpen(k.id, at) /\ k.id = p.grant
                            /\ p.class \in Names(k) /\ k.grantor \in ChainOf(p.peer)
    BY <1>3 DEF Admits, HeldBy
  <2>2. Siblings(p.requester, p.peer) => Siblings(a, b)
    BY DEF Admits, Siblings
  <2>3. Chain(p.grant) \cap revoked = {}
    <3> SUFFICES ASSUME NEW x \in Chain(p.grant), x \in revoked PROVE FALSE
      OBVIOUS
    <3>1. PICK g \in grants : g.id = x
      BY <1>1 DEF LedgerInv, LedgerTypeOK, Issued
    <3> QED BY <2>1, <3>1 DEF IsOpen, Ancestry
  <2>4. ASSUME NEW g \in Ancestry(p.grant)
        PROVE  /\ at \in g.from .. g.until
               /\ g.id # p.grant => p.class \in Passable(g)
               /\ g.peer # None => g.peer = p.peer /\ Siblings(a, b)
               /\ g.id = p.grant => g.grantor \in ChainOf(p.peer)
    <3>1. g \in grants /\ g.from <= at /\ at <= g.until
      BY <2>1 DEF IsOpen, Ancestry
    <3>2. at \in g.from .. g.until
      BY <1>1, <3>1, GrantConstants DEF LedgerInv, LedgerTypeOK, Grant
    <3>3. g.id # p.grant => p.class \in Passable(g)
      BY <1>1, <2>1 DEF LedgerInv, AuthorityFlowsDown
    <3>4. g.peer # None => g.peer = p.peer /\ Siblings(a, b)
      BY <1>3, <2>2 DEF Admits, PeerAllowed
    <3>5. g.id = p.grant => g.grantor \in ChainOf(p.peer)
      BY <1>1, <2>1, <3>1 DEF LedgerInv, LedgerTypeOK
    <3> QED BY <3>2, <3>3, <3>4, <3>5
  <2> QED BY <1>3, <2>3, <2>4
<1> QED BY <1>2, <1>3

-----------------------------------------------------------------------------
(* Theorems *)

\* The inductive invariant of permits over their ledger.
THEOREM CrossInvariant == CrossSpec => []CrossInv
BY CrossInitInv, CrossStepInv, PTL DEF CrossSpec

\* Permits, ledger and chart keep their types (grant.rs:419).
THEOREM CrossTypes == CrossSpec => []TypeOK
<1>1. CrossInv => TypeOK
  BY DEF CrossInv
<1> QED BY <1>1, CrossInvariant, PTL

\* A preauthorised permit never outlives its chain (grant.rs:523).
THEOREM PermitsEndInTime == CrossSpec => []NoPermitOutlivesItsChain
<1>1. CrossInv => NoPermitOutlivesItsChain
  BY DEF CrossInv
<1> QED BY <1>1, CrossInvariant, PTL

\* An admission rests on authority that exists at that moment (grant.rs:569).
THEOREM AdmissionsAreBacked == CrossSpec => []AdmissionIsBacked
BY Backed, CrossInvariant, PTL

\* Permits and the profile leave the ledger to its interface (profile.rs:71).
THEOREM LedgerIsKept == CrossSpec => KeepsLedger
<1>1. CrossInv /\ [CrossNext]_vars =>
        [\/ \E g \in grants' \cap Grant, at \in Times : Issue(g, at)
         \/ \E i \in Ids : Revoke(i)]_ledger
  BY CrossStep DEF CrossInv, LedgerStep
<1> QED BY <1>1, CrossInvariant, PTL DEF CrossSpec, KeepsLedger


\* The same with permits and sibling authorisations at work (profile.rs:71):
\* attenuation over whole chains, and revocation that is final.
THEOREM AuthorityIsKept == CrossSpec => []AuthorityFlowsDown /\ ClosedForGood
<1>1. CrossInv => AuthorityFlowsDown
  BY DEF CrossInv, LedgerInv
<1>2. CrossInv /\ [CrossNext]_vars =>
        [\A i \in Issued :
            Chain(i) \cap revoked # {} => \A at \in Times : ~ IsOpen(i, at)']_ledger
  BY CrossStep, ClosedStep DEF CrossInv
<1> QED BY <1>1, <1>2, CrossInvariant, PTL DEF CrossSpec, ClosedForGood

-----------------------------------------------------------------------------
(* Contracts and their session *)

\* What the session and the contracts do leaves permits, chart and ledger alone.
LEMMA FormationIsCross == ASSUME [FormationNext]_world PROVE [CrossNext]_vars
BY DEF FormationNext, world, ProposeAmongPeers, ProposeDelegation, Form

\* The ancestry of a grant stays what it was.
LEMMA AncestryStable ==
    ASSUME LedgerInv, [LedgerStep]_ledger, NEW i \in Issued
    PROVE  Ancestry(i)' \subseteq Ancestry(i)
<1>1. LedgerInv' /\ grants \subseteq grants' /\ Chain(i)' = Chain(i)
  BY StepKeepsChains
<1>2. ASSUME NEW g \in Ancestry(i)' PROVE g \in Ancestry(i)
  <2>1. g \in grants' /\ g.id \in Chain(i)
    BY <1>1 DEF Ancestry
  <2>2. PICK h \in grants : h.id = g.id
    BY <2>1, ChainIssued DEF Issued
  <2>3. h = g
    BY <1>1, <2>1, <2>2 DEF LedgerInv, LedgerTypeOK
  <2> QED BY <2>1, <2>2, <2>3 DEF Ancestry
<1> QED BY <1>2

\* PathTo is the chain of a rooted agent, its root first.
LEMMA PathIsChain ==
    ASSUME ChartTypeOK, NEW a \in Agents, Rooted(a)
    PROVE  /\ PathTo(a) \in Seq(Agents)
           /\ PathTo(a)[Len(PathTo(a))] = a
           /\ \A i, j \in DOMAIN PathTo(a) : PathTo(a)[i] = PathTo(a)[j] => i = j
<1> DEFINE T == {n \in Nat : Above(a, n) = None}
           height == CHOOSE n \in Levels : Above(a, n) = None /\ Above(a, n - 1) # None
<1>1. T # {} /\ T \in SUBSET Nat
  BY LevelsAreNumbers DEF Rooted
<1>2. PICK n \in T : \A m \in T : n <= m
  BY <1>1, LeastNumber
<1>3. n # 0 /\ n - 1 \in Nat /\ n - 1 \notin T
  BY <1>2, AboveStep, AgentConstants
<1>4. n \in Levels
  BY <1>2, <1>3, LevelsAreNumbers DEF Rooted, Levels
<1>5. height \in Levels /\ Above(a, height) = None /\ Above(a, height - 1) # None
  BY <1>3, <1>4
<1>6. PathTo(a) = [i \in 1 .. height |-> Above(a, height - i)]
  BY DEF PathTo
<1> HIDE DEF height
<1>7. height \in Nat /\ height > 0
  BY <1>5, LevelsAreNumbers
<1>8. ASSUME NEW i \in 1 .. height
      PROVE  /\ height - i \in Nat /\ Above(a, height - i) # None
             /\ Above(a, height - i) \in Agents
  <2>1. height - i \in Nat /\ height - i <= height - 1 /\ height - 1 \in Nat
    BY <1>7
  <2>2. Above(a, height - i) # None
    BY <1>5, <2>1, EndsForGood
  <2> QED BY <2>1, <2>2, AboveType
<1>9. PathTo(a) \in Seq(Agents) /\ Len(PathTo(a)) = height /\ DOMAIN PathTo(a) = 1 .. height
  BY <1>6, <1>7, <1>8
<1>10. PathTo(a)[height] = a
  BY <1>6, <1>7, AboveStep
<1>11. ASSUME NEW i \in 1 .. height, NEW j \in 1 .. height, i < j
       PROVE  Above(a, height - i) # Above(a, height - j)
  <2>1. height - j < height - i
    BY <1>7, <1>11
  <2> QED BY <1>8, <2>1, NoCycle
<1>12. ASSUME NEW i \in 1 .. height, NEW j \in 1 .. height, PathTo(a)[i] = PathTo(a)[j]
       PROVE  i = j
  BY <1>6, <1>7, <1>11, <1>12
<1> QED BY <1>9, <1>10, <1>12

\* The grants that contracts rest on are in the ledger.
FormationInv ==
    /\ CrossInv
    /\ SessionTypeOK /\ formed \subseteq Contract
    /\ ObserversAreLetIn
    /\ DelegationsStandOnGrants

\* What DelegationsStandOnGrants says of one contract and its grant.
StandsOn(k, g) ==
    /\ g.id = k.grant
    /\ {g.grantee, g.grantor} = SessionParties /\ g.grantee = k.owner
    /\ \A h \in Ancestry(g.id) :
           k.at \in h.from .. h.until /\ (h # g => Names(g) \subseteq Passable(h))
    /\ k.path[Len(k.path)] = g.grantor
    /\ \A i, j \in DOMAIN k.path : k.path[i] = k.path[j] => i = j

LEMMA StandingLasts ==
    ASSUME FormationInv, [LedgerStep]_ledger, NEW k \in formed, k.delegated
    PROVE  \E g \in grants' : StandsOn(k, g)'
<1>1. LedgerInv
  BY DEF FormationInv, CrossInv
<1>2. PICK g \in grants : StandsOn(k, g)
  BY DEF FormationInv, DelegationsStandOnGrants, StandsOn
<1>3. g \in grants' /\ Ancestry(g.id)' \subseteq Ancestry(g.id)
  BY <1>1, AncestryStable, StepKeepsChains DEF Issued
<1>4. \A h \in Ancestry(g.id) :
          k.at \in h.from .. h.until /\ (h # g => Names(g) \subseteq Passable(h))
  BY <1>2 DEF StandsOn
<1>5. \A h \in Ancestry(g.id)' :
          k.at \in h.from .. h.until /\ (h # g => Names(g) \subseteq Passable(h))
  BY <1>3, <1>4
<1>6. /\ g.id = k.grant
      /\ {g.grantee, g.grantor} = SessionParties /\ g.grantee = k.owner
      /\ k.path[Len(k.path)] = g.grantor
      /\ \A i, j \in DOMAIN k.path : k.path[i] = k.path[j] => i = j
  BY <1>2 DEF StandsOn
<1>7. StandsOn(k, g)'
  BY <1>5, <1>6 DEF StandsOn
<1> QED BY <1>3, <1>7

LEMMA NewDelegation ==
    ASSUME FormationInv, NEW owner \in SessionParties, NEW g \in grants, NEW at \in Times,
           GrantFits(g, owner, at), Rooted(g.grantor),
           NEW k, k = [owner |-> owner, delegated |-> TRUE, grant |-> g.id,
                       path |-> PathTo(g.grantor), at |-> at]
    PROVE  k \in Contract /\ StandsOn(k, g)
<1>1. LedgerInv /\ ChartTypeOK
  BY DEF FormationInv, CrossInv, TypeOK, ChartTypeOK
<1>2. g.grantee = owner /\ g.grantor \in SessionParties /\ g.grantor # owner
  BY SessionConstants DEF GrantFits, Counterparty, SessionParties
<1>3. {g.grantee, g.grantor} = SessionParties /\ g.grantor \in Agents
  BY <1>2, SessionConstants DEF SessionParties
<1>4. /\ PathTo(g.grantor) \in Seq(Agents)
      /\ PathTo(g.grantor)[Len(PathTo(g.grantor))] = g.grantor
      /\ \A i, j \in DOMAIN PathTo(g.grantor) :
            PathTo(g.grantor)[i] = PathTo(g.grantor)[j] => i = j
  BY <1>1, <1>3, PathIsChain
<1>5. ASSUME NEW h \in Ancestry(g.id)
      PROVE  at \in h.from .. h.until /\ (h # g => Names(g) \subseteq Passable(h))
  <2>1. h \in grants /\ h.from <= at /\ at <= h.until
    BY DEF GrantFits, IsOpen, Ancestry
  <2>2. h.from \in Nat /\ h.until \in Nat /\ at \in Nat
    BY <1>1, <2>1, GrantConstants DEF LedgerInv, LedgerTypeOK, Grant
  <2> QED BY <1>1, <2>1, <2>2 DEF LedgerInv, AuthorityFlowsDown
<1>6. g.id \in Ids
  BY <1>1 DEF LedgerInv, LedgerTypeOK, Grant
<1>7. k \in Contract
  BY <1>4, <1>6 DEF Contract
<1> QED BY <1>2, <1>3, <1>4, <1>5, <1>7 DEF StandsOn

LEMMA FormationInitially == ASSUME FormationInit PROVE FormationInv
BY CrossInitInv
   DEF FormationInit, FormationInv, SessionInit, SessionTypeOK, SessionState,
       ObserversAreLetIn, DelegationsStandOnGrants

LEMMA FormationStep == ASSUME FormationInv, [FormationNext]_world PROVE FormationInv'
<1>1. CrossInv' /\ [LedgerStep]_ledger
  BY FormationIsCross, CrossStepInv, CrossStep DEF FormationInv, CrossInv
<1>2. \A k \in formed : k.delegated => \E g \in grants' : StandsOn(k, g)'
  BY <1>1, StandingLasts
<1>3. SessionTypeOK' /\ ObserversAreLetIn'
  <2>1. CASE SessionNext
    BY <2>1, SessionConstants
       DEF SessionNext, Accept, DeclareFeatures, GrantObserver, CloseSession, AbandonSession,
           FormationInv, SessionTypeOK, SessionState, ObserversAreLetIn, SessionParties,
           FeatureAvailable, Ended
  <2>2. CASE UNCHANGED talk
    BY <2>2 DEF talk, FormationInv, SessionTypeOK, ObserversAreLetIn
  <2> QED BY <2>1, <2>2 DEF FormationNext, world, ProposeAmongPeers, ProposeDelegation, Form
<1>4. ASSUME NEW owner \in SessionParties, ProposeAmongPeers(owner)
      PROVE  \A k \in formed' \ formed : k \in Contract /\ ~ k.delegated
  <2> DEFINE k == [owner |-> owner, delegated |-> FALSE, grant |-> None, path |-> <<>>,
                   at |-> None]
  <2>1. formed' = formed \cup {k}
    BY <1>4 DEF ProposeAmongPeers, Form
  <2>2. k \in Contract /\ ~ k.delegated
    BY DEF Contract
  <2> QED BY <2>1, <2>2
<1>5. ASSUME NEW owner \in SessionParties, NEW g \in grants, NEW at \in Times,
             ProposeDelegation(owner, g, at)
      PROVE  \A k \in formed' \ formed : k \in Contract /\ \E h \in grants' : StandsOn(k, h)'
  <2> PICK k : k = [owner |-> owner, delegated |-> TRUE, grant |-> g.id,
                    path |-> PathTo(g.grantor), at |-> at]
    OBVIOUS
  <2>1. formed' = formed \cup {k} /\ UNCHANGED ledger
    BY <1>5 DEF ProposeDelegation, Form, vars
  <2>2. k \in Contract /\ StandsOn(k, g)
    BY <1>5, NewDelegation DEF ProposeDelegation
  <2>3. StandsOn(k, g)' /\ g \in grants'
    BY <2>1, <2>2
       DEF StandsOn, ledger, Ancestry, Chain, ParentClosed, Names, Passable
  <2> QED BY <2>1, <2>2, <2>3
<1>6. formed' \subseteq Contract /\ DelegationsStandOnGrants'
  <2>1. ASSUME NEW k \in formed' \ formed
        PROVE  k \in Contract /\ (k.delegated => \E g \in grants' : StandsOn(k, g)')
    BY <1>4, <1>5 DEF FormationNext, world
  <2>2. \A k \in formed' : k.delegated => \E g \in grants' : StandsOn(k, g)'
    BY <1>2, <2>1
  <2> QED BY <2>1, <2>2 DEF FormationInv, DelegationsStandOnGrants, StandsOn
<1> QED BY <1>1, <1>3, <1>6 DEF FormationInv

\* The inductive invariant of contract formation.
THEOREM FormationInvariant == FormationSpec => []FormationInv
BY FormationInitially, FormationStep, PTL DEF FormationSpec

\* Forming contracts takes nothing away from what holds of permits and grants:
\* every theorem of CrossSpec is one of FormationSpec.
THEOREM FormationKeepsCross == FormationSpec => CrossSpec
<1>1. FormationInit => CrossInit
  BY DEF FormationInit
<1>2. [FormationNext]_world => [CrossNext]_vars
  BY FormationIsCross
<1> QED BY <1>1, <1>2, PTL DEF FormationSpec, CrossSpec

\* Session, contracts, permits and ledger keep their types (session.rs:24).
THEOREM FormationTypes == FormationSpec => []FormationTypeOK
<1>1. FormationInv => FormationTypeOK
  BY DEF FormationInv, FormationTypeOK, CrossInv
<1> QED BY <1>1, FormationInvariant, PTL

\* A delegation rests on one grant of the ledger that fits its roles, whatever
\* becomes of chart, grants and session afterwards (contract.rs:265).
THEOREM DelegationsStand == FormationSpec => []DelegationsStandOnGrants
<1>1. FormationInv => DelegationsStandOnGrants
  BY DEF FormationInv
<1> QED BY <1>1, FormationInvariant, PTL

\* Nobody listens whom both participants did not let in (session.rs:176).
THEOREM ObserversWereLetIn == FormationSpec => []ObserversAreLetIn
<1>1. FormationInv => ObserversAreLetIn
  BY DEF FormationInv
<1> QED BY <1>1, FormationInvariant, PTL

\* A session that has ended stays ended, and nothing is formed in it
\* (session.rs:18).
THEOREM SessionsAreFinal == FormationSpec => SessionsStayClosed
<1>1. [FormationNext]_world => [(session \in Ended) => UNCHANGED <<talk, formed>>]_world
  BY DEF FormationNext, world, SessionNext, Accept, DeclareFeatures, GrantObserver,
         CloseSession, AbandonSession, Ended, ProposeAmongPeers, ProposeDelegation, Form, talk
<1> QED BY <1>1, PTL DEF FormationSpec, SessionsStayClosed
=============================================================================
