---- MODULE MCFormation ----
(* Instances of Formation and Escalation for TLC: every chart of four agents for *)
(* a dispute, a few of them for grants, permits, sessions and contracts.         *)
EXTENDS Formation, Escalation, TLC

CONSTANTS r, p, c, d, x

Give(n)  == [name |-> n, delegable |-> TRUE]
Hold(n)  == [name |-> n, delegable |-> FALSE]

G(i, from, to, scopes, since, until, parent, peer) ==
    [id |-> i, grantor |-> from, grantee |-> to, scopes |-> scopes,
     from |-> since, until |-> until, parent |-> parent, peer |-> peer]

\* Charters, one short and one of contradictory elements; below them a grant that
\* restricts the peer and one that would close a cycle; below these grants without
\* a restriction of their own and with one to another peer.
SomeGrants ==
    {G(2, Deployment, p, <<Give(x)>>, 0, 1, None, None),
     G(2, Deployment, p, <<Give(x)>>, 0, 0, None, None),
     G(3, Deployment, p, <<Give(x), Hold(x)>>, 0, 1, None, None),
     G(1, p, c, <<Give(x)>>, 0, 1, 2, d),
     G(2, c, p, <<Give(x)>>, 0, 1, 1, None),
     G(1, c, d, <<Hold(x)>>, 0, 1, 3, None),
     G(3, c, d, <<Hold(x)>>, 0, 1, 1, c)}

Tree == [a \in Agents |-> IF a = r THEN None ELSE IF a = p THEN r ELSE p]
Cyclic == [Tree EXCEPT ![r] = p]
Apart == [Tree EXCEPT ![d] = None]
SomeCharts == {Tree, Apart, Cyclic}
AllCharts == [Agents -> Agents \cup {None}]
SomeRequests ==
    {[requester |-> c, peer |-> d, class |-> x, expires |-> 1],
     [requester |-> d, peer |-> c, class |-> x, expires |-> 0]}

BranchInit == FormationInit /\ DisputeInit

\* A dispute and the rest read nothing of each other but the chart, so they are
\* not interleaved: each moves while the other is at its start.
BranchSpec ==
    /\ BranchInit
    /\ [][ \/ DisputeInit /\ org \in Later /\ FormationNext /\ UNCHANGED escalation
           \/ FormationInit /\ DisputeNext /\ UNCHANGED <<ledger, permits, talk, formed>>
         ]_<<world, escalation>>
====
